---- MODULE Spec2Model ----
(***************************************************************************)
(* wikiserv: the transformation cache (cache.py), the file helpers it      *)
(* uses (filestuff.py), the job queue (worker.py) and the search cache     *)
(* (search.py).                                                            *)
(*                                                                         *)
(* Spec      one caller using a synchronous Cache without limits: every    *)
(*           handler (__get_entry, Entry.close, AutoProcess.__call__,      *)
(*           scrub) is one action; the source tree and the clock are the   *)
(*           environment.                                                  *)
(* SpecEvict the same actions on a Cache with max_age, max_entries or      *)
(*           both.                                                         *)
(* SpecConc  several callers, threads of one process or separate           *)
(*           processes, whose lookups and scrubs interleave at the         *)
(*           fcntl.lockf calls.                                            *)
(* SpecPath  the path check at the head of __get_entry, on raw paths.      *)
(* SpecWorker, SpecPool                                                    *)
(*           one Worker, and a WorkerPool, running the Jobs callers        *)
(*           schedule; SpecWorkerFair and SpecPoolFair add weak fairness   *)
(*           on each thread's steps.                                       *)
(* SpecDispatch                                                            *)
(*           a DispatcherCache: lookups by one caller, scrubs on its       *)
(*           Worker.                                                       *)
(* SpecHeader                                                              *)
(*           EntryHeader.write followed by EntryHeader.read, on headers    *)
(*           with times before and after the epoch.                        *)
(* SpecAdapter                                                             *)
(*           SpecWorker with an RWAdapter Job: the sink writes into the    *)
(*           pipe, the submitter reads and leaves the adapter's scope;     *)
(*           SpecAdapterFair adds weak fairness.                           *)
(* SpecSearch                                                              *)
(*           one caller of a SearchCache: queries, scrubs, writes to the   *)
(*           source tree and clock ticks.  SpecSearchConc starts with a    *)
(*           SearchCache whose threads query and scrub concurrently.       *)
(* SpecBytes a lookup of a path whose cache file holds foreign bytes.      *)
(* SpecDrain SpecConc's actions on a Cache with max_entries, the drain     *)
(*           loop of scrub one turn at a time, and scrub called by a       *)
(*           caller that holds an Entry; SpecDrainFair adds weak fairness  *)
(*           on each thread's steps.                                       *)
(* SpecOpen  the files __get_entry opens for a path, absolute paths        *)
(*           included, with the roots at '/s' and '/c'.                    *)
(*                                                                         *)
(* Times are integer ticks; MicrosPerSecond ticks make one second, so a    *)
(* datetime is the tick count since the epoch.  The cache specifications   *)
(* only produce times at or after the epoch.                               *)
(***************************************************************************)
EXTENDS Integers, Sequences, FiniteSets, TLC

\* ------------------------------------------------------------------ bounds
NPaths == 3
MaxData == 3
MaxTime == 2
MaxAge == 1
MaxEdits == 1
NEdited == 1
MicrosPerSecond == 2
NCallers == 2
NConcPaths == 2
MaxOps == 2
MaxDepth == 3
NWorkers == 2
MaxJobs == 3
MaxIncr == 2
MaxChunks == 2
PipeCap == 1
NFilters == 3
SearchOps == 5
MaxSeconds == 2
MaxChecksumLen == 1

\* cache.py:269 rejects max_entries < 2
MinMaxEntries == 2

Paths == 1 .. NPaths
Data == 1 .. MaxData
Times == 0 .. MaxTime
Callers == 1 .. NCallers
Procs == 1 .. NCallers
ConcPaths == 1 .. NConcPaths
Workers == 1 .. NWorkers
SearchFilters == 1 .. NFilters

\* ------------------------------------------------------- source files
\* filestuff._File.size: st_size of the source.  Contents 1 and 2 have the
\* same length, 3 is longer.
SizeOf(d) == (d + 1) \div 2

\* filestuff._File.checksum: the digest of the content.  Contents of
\* different length may share a digest; (size, digest) identifies a content.
Checksum(d) == d % 2

NoSource == [exists |-> FALSE, data |-> 0, modified |-> 0]
SourceFile(d, t) == [exists |-> TRUE, data |-> d, modified |-> t]

\* ------------------------------------------------------- EntryHeader
NoneHeader == [valid |-> FALSE, size |-> 0, cached |-> FALSE, timestamp |-> 0, checksum |-> 0]

EntryHeader(size, cached, timestamp, checksum) ==
    [valid |-> TRUE, size |-> size, cached |-> cached, timestamp |-> timestamp, checksum |-> checksum]

\* int(): truncation towards zero of dt.timestamp()
IntTrunc(t) == IF t >= 0 THEN t \div MicrosPerSecond ELSE -((-t) \div MicrosPerSecond)

\* dt.microsecond
Microsecond(t) == t % MicrosPerSecond

\* Mutant: the microseconds are dropped
datetime2fp_NoMicros(dt) ==
    LET seconds == IntTrunc(dt)
    IN  <<IF seconds < 0 THEN seconds - 1 ELSE seconds, 0>>

datetime2fp(dt) ==
    LET seconds == IntTrunc(dt)
    IN  <<IF seconds < 0 THEN seconds - 1 ELSE seconds, Microsecond(dt)>>

fp2datetime(s, ms) == s * MicrosPerSecond + ms

\* The bytes of a header on disk; bad marks a file that is too short or
\* does not start with MAGIC.
NoBytes == [bad |-> TRUE, size |-> 0, cached |-> FALSE, seconds |-> 0, microseconds |-> 0, checksum |-> 0]

HeaderWrite(h) ==
    LET fp == datetime2fp(h.timestamp)
    IN  [bad |-> FALSE, size |-> h.size, cached |-> h.cached,
         seconds |-> fp[1], microseconds |-> fp[2], checksum |-> h.checksum]

HeaderRead(b) ==
    IF b.bad THEN NoneHeader
    ELSE EntryHeader(b.size, b.cached, fp2datetime(b.seconds, b.microseconds), b.checksum)

\* Mutant: the checksum is not compared
HeaderEq_NoChecksum(a, b) ==
    IF ~(a.valid /\ b.valid) THEN FALSE
    ELSE IF ~(a.cached /\ b.cached) THEN FALSE
    ELSE a.size = b.size /\ a.timestamp = b.timestamp

\* EntryHeader.__eq__: two headers are equal only when both are cached.
HeaderEq(a, b) ==
    IF ~(a.valid /\ b.valid) THEN FALSE
    ELSE IF ~(a.cached /\ b.cached) THEN FALSE
    ELSE a.size = b.size /\ a.timestamp = b.timestamp /\ a.checksum = b.checksum

\* ------------------------------------------------------- cache files
NoFile == [exists |-> FALSE, hdr |-> NoBytes, payload |-> <<>>, modified |-> 0]
CacheFile(hdr, payload, t) == [exists |-> TRUE, hdr |-> hdr, payload |-> payload, modified |-> t]

\* open(cache_path, 'w+b'): a new, empty file
EmptyFile(t) == CacheFile(NoBytes, <<>>, t)

\* Entry.__init__: the header parsed from the file, None for a file
\* shorter than a header or with a wrong magic.
EntryInit(f) == HeaderRead(f.hdr)

\* Entry.header setter: truncate, write the header, flush.
SetHeader(h, t) == CacheFile(HeaderWrite(h), <<>>, t)

\* Entry.write: append to the payload.
EntryWrite(f, bytes, t) == CacheFile(f.hdr, f.payload \o bytes, t)

\* Entry.close: utime() sets the file's times to the current time.
EntryClose(f, t) == [f EXCEPT !.modified = t]

\* ------------------------------------------------------- transformer
\* The filter_function a Cache is built with.  "process" is the test
\* transformer (writes TOUCHED, then copies the input); "nocache" is
\* AutoRawNoCacheProcessor; "notimplemented" is doc_head on an input with no
\* detected encoding; "ioerror" and "error" fail after writing TOUCHED, with
\* an OSError and with another exception.
Filters == {"process", "nocache", "notimplemented", "ioerror", "error"}

Touched == 0

\* What a run of the transformer on content d writes to its output before
\* it returns or raises.
FilterWrites(kind, d, cached) ==
    CASE kind = "process" -> <<Touched, d>>
      [] kind = "nocache" -> IF cached THEN <<>> ELSE <<Touched, d>>
      [] OTHER -> <<Touched>>

\* Mutant: the transformer that has no output for its input returns
FilterRaises_Returns(kind, cached) ==
    CASE kind = "process" -> "none"
      [] kind = "nocache" -> IF cached THEN "NoCache" ELSE "none"
      [] kind = "notimplemented" -> "none"
      [] kind = "ioerror" -> "IOError"
      [] OTHER -> "Exception"

\* How a run of the transformer ends.
FilterRaises(kind, cached) ==
    CASE kind = "process" -> "none"
      [] kind = "nocache" -> IF cached THEN "NoCache" ELSE "none"
      [] kind = "notimplemented" -> "NotImplementedError"
      [] kind = "ioerror" -> "IOError"
      [] OTHER -> "Exception"

\* ------------------------------------------------------- options
\* Python's None for max_age and max_entries
None == -1

Options(max_age, max_entries, auto_scrub) ==
    [max_age |-> max_age, max_entries |-> max_entries, auto_scrub |-> auto_scrub]

\* ------------------------------------------------------- scrub
\* Cache.find_files: the entry files under the root
find_files(files) == {p \in Paths : files[p].exists}

\* Mutant: the age of an entry is not checked
WalkRemoves_NoAge(p, files, src, opts, t) == ~src[p].exists

\* Mutant: an entry whose source is gone is kept
WalkRemoves_KeepsOrphans(p, files, src, opts, t) ==
    opts.max_age # None /\ files[p].modified < t - opts.max_age

\* scrub, lines 396-410: the entries the walk keeps.  An entry whose source
\* is gone, or whose mtime is before the cutoff, is removed.
WalkRemoves(p, files, src, opts, t) ==
    \/ ~src[p].exists
    \/ opts.max_age # None /\ files[p].modified < t - opts.max_age

WalkKept(files, src, opts, t) ==
    {p \in find_files(files) : ~WalkRemoves(p, files, src, opts, t)}

\* Mutant: the queue is sorted newest first
SortedQueues_Descending(kept, files) ==
    {q \in [1 .. Cardinality(kept) -> kept] :
        /\ \A i, j \in DOMAIN q : i # j => q[i] # q[j]
        /\ \A i, j \in DOMAIN q : i < j => files[q[i]].modified >= files[q[j]].modified}

\* sorted(entries, key = timestamp): the walk order decides between entries
\* of equal timestamp, and the walk order is the directory's.
SortedQueues(kept, files) ==
    {q \in [1 .. Cardinality(kept) -> kept] :
        /\ \A i, j \in DOMAIN q : i # j => q[i] # q[j]
        /\ \A i, j \in DOMAIN q : i < j => files[q[i]].modified <= files[q[j]].modified}

\* Mutant: the drain stops once the count is max_entries
DrainContinues_Strict(ecount, opts) == ecount > 0 /\ ecount > opts.max_entries

\* scrub, lines 422-432: the drain loop.  q holds paths, each with the
\* timestamp the walk read (stamp).
DrainContinues(ecount, opts) == ecount > 0 /\ ecount >= opts.max_entries

RECURSIVE Drain(_, _, _, _, _)
Drain(q, stamp, ecount, files, opts) ==
    IF ~DrainContinues(ecount, opts) \/ q = <<>>
    THEN [files |-> files, ecount |-> ecount]
    ELSE LET fname == Head(q)
         IN  IF files[fname].modified > stamp[fname]
             THEN Drain(Tail(q) \o <<fname>>, stamp, ecount, files, opts)
             ELSE Drain(Tail(q), stamp, ecount - 1, [files EXCEPT ![fname] = NoFile], opts)

\* scrub, lines 391-443, for the walk order q.  find_dirs yields the
\* subdirectory when it exists, and rmdir is not a name cache.py imports:
\* the call raises NameError and known_entry_count keeps its value.
ScrubBody(files, src, opts, t, dir, known, q) ==
    LET kept == WalkKept(files, src, opts, t)
        walked == [p \in Paths |-> IF p \in kept THEN files[p] ELSE NoFile]
        stamp == [p \in Paths |-> files[p].modified]
        drained == IF opts.max_entries # None /\ Cardinality(kept) >= opts.max_entries
                   THEN Drain(q, stamp, Cardinality(kept), walked, opts)
                   ELSE [files |-> walked, ecount |-> Cardinality(kept)]
    IN  [files |-> drained.files,
         known |-> IF dir THEN known ELSE drained.ecount,
         raised |-> dir,
         ran |-> TRUE]

\* scrub, lines 381-388: a tentative scrub returns False while the known
\* count is below max_entries.
TentativeSkips(tentative, opts, known) ==
    tentative /\ opts.max_entries # None /\ known < opts.max_entries

ScrubCall(tentative, files, src, opts, t, dir, known, q) ==
    IF TentativeSkips(tentative, opts, known)
    THEN [files |-> files, known |-> known, raised |-> FALSE, ran |-> FALSE]
    ELSE ScrubBody(files, src, opts, t, dir, known, q)

\* ------------------------------------------------------- lookup
\* Mutant: the source always opens
SourceOpens_Always(f) == TRUE

\* LockedFile.__enter__: open(original_path, 'rb') succeeds; otherwise the
\* IOError it raises becomes the KeyError of line 357.
SourceOpens(f) == f.exists

\* __get_entry, lines 324 and 335: the header with cached = False
Uncached(h) == EntryHeader(h.size, FALSE, h.timestamp, h.checksum)

\* Mutant: a tombstone is not recognised
IsTombstone_Never(header) == FALSE

\* __get_entry, line 320: the entry on disk is a tombstone
IsTombstone(header) == header.valid /\ ~header.cached

\* __get_entry, lines 317-349, once Entry(handle) has read header from the
\* opened file: the files, the known count and what the caller gets.
\*   kind     "entry" (an open Entry), "auto" (an AutoProcess), "KeyError",
\*            "raise" (another exception)
\*   header   the header of the returned object
\*   payload  the bytes readable from the returned Entry
\*   calls    the transformer runs the lookup made
GetEntryFrom(p, header, update, opened, files, src, filter, t, known) ==
    LET original == src[p]
        new_header == EntryHeader(SizeOf(original.data), TRUE, original.modified, Checksum(original.data))
        tombstone == Uncached(new_header)
        written == EntryWrite(SetHeader(new_header, t), FilterWrites(filter, original.data, TRUE), t)
        raised == FilterRaises(filter, TRUE)
        counted == IF update THEN known ELSE known + 1
        Result(f, k, kind, h, bytes, calls) ==
            [files |-> [files EXCEPT ![p] = f], known |-> k, kind |-> kind,
             header |-> h, payload |-> bytes, calls |-> calls]
    IN  IF IsTombstone(header)
        THEN Result(EntryClose(IF ~HeaderEq(header, new_header) THEN SetHeader(tombstone, t) ELSE opened, t),
                    known, "auto", IF ~HeaderEq(header, new_header) THEN tombstone ELSE header, <<>>, 0)
        ELSE IF ~HeaderEq(header, new_header)
        THEN CASE raised = "none" ->
                    Result(written, counted, "entry", new_header, written.payload, 1)
               [] raised = "NoCache" ->
                    Result(EntryClose(SetHeader(tombstone, t), t), known, "auto", tombstone, <<>>, 1)
               [] raised = "NotImplementedError" ->
                    Result(SetHeader(new_header, t), counted, "entry", new_header, <<>>, 1)
               [] raised = "IOError" ->
                    Result(EntryClose(written, t), known, "KeyError", NoneHeader, <<>>, 1)
               [] OTHER ->
                    Result(NoFile, known, "raise", NoneHeader, <<>>, 1)
        ELSE Result(opened, counted, "entry", header, opened.payload, 0)

\* __get_entry, lines 296-365, on the files left by the automatic scrub.
\* A source that cannot be opened is a KeyError before the entry file is
\* opened; open(cache_path, 'r+b') falls back to 'w+b'.
GetEntry(p, files, src, filter, t, known) ==
    LET update == files[p].exists
        opened == IF update THEN files[p] ELSE EmptyFile(t)
    IN  IF ~SourceOpens(src[p])
        THEN [files |-> files, known |-> known, kind |-> "KeyError",
              header |-> NoneHeader, payload |-> <<>>, calls |-> 0]
        ELSE GetEntryFrom(p, EntryInit(opened), update, opened, files, src, filter, t, known)

\* __get_entry, lines 292-294: with auto_scrub and max_entries set, a
\* tentative scrub comes first.
AutoScrubs(opts) == opts.auto_scrub /\ opts.max_entries # None

\* ------------------------------------------------------- state
VARIABLES
    options,            \* Cache.__options
    filter_function,    \* Cache.__filter_function
    subdir,             \* the paths that lie in a subdirectory ('parent/test.txt')
    now,                \* the clock
    source,             \* the files under source_root
    cache,              \* the entry files under the cache root
    dir,                \* whether the cache root holds the subdirectory
    known_entry_count,  \* Cache.__known_entry_count
    ret,                \* what the caller's last call did and returned
    seen,               \* per path: the Entry the last lookup returned, while its file stays
    edits,              \* writes and removals made in the source tree
    process_of,         \* per caller (a thread): the process it runs in
    pc,                 \* per caller: where it is in __get_entry or scrub
    frame,              \* per caller: the locals of its call, and what the call returned
    pool_lock,          \* per process: the fcntl lock it holds on the pool's lock file
    entry_lock,         \* per path: the process holding the fcntl lock on the entry file, 0 for none
    invocations,        \* per path: the transformer runs with cached = True
    known_of,           \* per process: its Cache's __known_entry_count
    ops,                \* per caller: the calls it has made
    key,                \* the path given to cache[key], split at '/'
    normalized,         \* normpath(key), split at '/'
    verdict,            \* what the path check of __get_entry made of key
    jobs,               \* the Jobs in the order they were scheduled
    queue,              \* Queued.__queue: the scheduled Jobs no worker has taken
    worker,             \* per Worker thread: where it is in run(), and its Job
    count,              \* the counter the test jobs add to
    read_end,           \* RWAdapter.__read: the readable end of the pipe
    pipe,               \* the chunks written to the pipe and not read yet
    chunks,             \* the chunks the sink function has written
    released,           \* how the submitter left the RWAdapter's scope
    db,                 \* BaseSearchCache.__db, per filter: the '=date:' value and the list
    length,             \* BaseSearchCache.__length
    scans,              \* the calls of sorted_scan
    LATEST_MTIME,       \* what latest_mtime_callback returns
    tree,               \* the version of the source tree a scan lists
    query,              \* per caller: where it is in __call__ or scrub, and its locals
    given,              \* an EntryHeader handed to write()
    wire,               \* what write() put on the stream, or raised
    decoded             \* what read() made of the stream, or raised

vars == <<options, filter_function, subdir, now, source, cache, dir, known_entry_count, ret, seen, edits,
          process_of, pc, frame, pool_lock, entry_lock, invocations, known_of, ops,
          key, normalized, verdict, jobs, queue, worker, count,
          read_end, pipe, chunks, released, db, length, scans, LATEST_MTIME, tree, query,
          given, wire, decoded>>

codec == <<given, wire, decoded>>

adapter == <<read_end, pipe, chunks, released>>

search == <<db, length, scans, LATEST_MTIME, tree, query>>

request == <<key, normalized, verdict>>

scheduling == <<jobs, queue, worker, count>>

config == <<options, filter_function, subdir>>

threads == <<process_of, pc, frame, pool_lock, entry_lock, invocations, known_of, ops>>

NoFrame == [op |-> "none", kind |-> "none", path |-> 0, update |-> FALSE, header |-> NoneHeader,
            payload |-> <<>>, todo |-> {}, entries |-> {}, stamp |-> [p \in Paths |-> 0],
            equeue |-> <<>>, ecount |-> 0]

\* No path was given yet
NoRequest ==
    /\ key = <<>>
    /\ normalized = <<>>
    /\ verdict = "none"

\* A Worker thread that was not started
Unstarted == [pc |-> "unstarted", job |-> 0, loaded |-> 0]

\* No Job was scheduled, no Worker was started
NoJobs ==
    /\ jobs = <<>>
    /\ queue = <<>>
    /\ worker = [w \in Workers |-> Unstarted]
    /\ count = 0

\* Nothing was written or read yet
NoWire == [raises |-> "pending", size |-> 0, cached |-> FALSE, seconds |-> 0, microseconds |-> 0,
           cksum_len |-> 0, checksum |-> <<>>]

NoDecoded == [raises |-> "pending", header |-> NoneHeader]

\* No header is being converted
NoCodec ==
    /\ given = NoneHeader
    /\ wire = NoWire
    /\ decoded = NoDecoded

\* No RWAdapter was made
NoAdapter ==
    /\ read_end = "none"
    /\ pipe = 0
    /\ chunks = 0
    /\ released = "no"

\* search.py:143: entry_timestamp before its first assignment
Unbound == -2

\* A caller that is in no call of the SearchCache
NoQuery ==
    [pc |-> "idle", op |-> "none", filter |-> 0, mtime |-> None, updating |-> TRUE,
     entry_timestamp |-> Unbound, content |-> None, started |-> None, new_entry_timestamp |-> None,
     kind |-> "none", result |-> None]

\* A filter with nothing stored.  scanned is history: the time at which the
\* scan that produced the stored list started.
NoEntry == [date |-> None, list |-> None, scanned |-> None]

\* An empty SearchCache over an empty tree
NoSearch ==
    /\ db = [f \in SearchFilters |-> NoEntry]
    /\ length = 0
    /\ scans = 0
    /\ LATEST_MTIME = None
    /\ tree = 0
    /\ query = [c \in Callers |-> NoQuery]

\* No caller has called yet, no lock is held.
NoThreads ==
    /\ pc = [c \in Callers |-> "idle"]
    /\ frame = [c \in Callers |-> NoFrame]
    /\ pool_lock = [P \in Procs |-> "none"]
    /\ entry_lock = [p \in Paths |-> 0]
    /\ invocations = [p \in Paths |-> 0]
    /\ known_of = [P \in Procs |-> 0]
    /\ ops = [c \in Callers |-> 0]

NotSeen == [valid |-> FALSE, payload |-> <<>>, src |-> NoSource]

NoRet == [op |-> "init", kind |-> "none", path |-> 0, header |-> NoneHeader, payload |-> <<>>,
          calls |-> 0, update |-> FALSE, refill |-> FALSE, removed |-> {}]

\* Cache.__init__: max_age and max_entries may each be None.
OptionSets ==
    {Options(a, m, s) : a \in {None, MaxAge}, m \in {None, MinMaxEntries}, s \in BOOLEAN}

NoLimits == Options(None, None, FALSE)

\* The state after Cache.__init__ on a new root: the scrub of the
\* constructor leaves a count of 0.  Every source file exists.
InitFiles ==
    /\ now = 0
    /\ source = [p \in Paths |-> SourceFile(1, 0)]
    /\ cache = [p \in Paths |-> NoFile]
    /\ dir = FALSE
    /\ known_entry_count = 0
    /\ ret = NoRet
    /\ seen = [p \in Paths |-> NotSeen]
    /\ edits = 0
    /\ process_of = [c \in Callers |-> 1]
    /\ NoThreads
    /\ NoAdapter
    /\ NoCodec
    /\ NoSearch
    /\ NoRequest
    /\ NoJobs

\* A Cache without limits, with each transformer
Init ==
    /\ options = NoLimits
    /\ filter_function \in Filters
    /\ subdir = {}
    /\ InitFiles

\* A Cache with max_age, max_entries or both, with a transformer that
\* caches and one that does not; auto_scrub only acts when max_entries is
\* set.
InitEvict ==
    /\ options \in {o \in OptionSets : o # NoLimits /\ (o.auto_scrub => o.max_entries # None)}
    /\ filter_function \in {"process", "nocache"}
    /\ subdir = {}
    /\ InitFiles

\* The paths a scrub removed
Removed(before, after) == {p \in Paths : before[p].exists /\ ~after[p].exists}

Forget(s, gone) == [p \in Paths |-> IF p \in gone THEN NotSeen ELSE s[p]]

\* The walk orders a scrub may meet
WalkOrders == SortedQueues(WalkKept(cache, source, options, now), cache)

\* schedule_scrub(True) at the head of __get_entry
AutoScrub(q) ==
    IF AutoScrubs(options)
    THEN ScrubCall(TRUE, cache, source, options, now, dir, known_entry_count, q)
    ELSE [files |-> cache, known |-> known_entry_count, raised |-> FALSE, ran |-> FALSE]

\* Cache.__getitem__ / EntryWrapper.__enter__: __get_entry(path).  The
\* caller holds no Entry.
LookupWith(p, scrubbed) ==
    LET gone == Removed(cache, scrubbed.files)
        got == GetEntry(p, scrubbed.files, source, filter_function, now, scrubbed.known)
    IN  IF scrubbed.raised
        THEN /\ cache' = scrubbed.files
             /\ known_entry_count' = scrubbed.known
             /\ dir' = dir
             /\ seen' = Forget(seen, gone)
             /\ ret' = [NoRet EXCEPT !.op = "lookup", !.kind = "raise", !.path = p, !.removed = gone]
        ELSE /\ cache' = got.files
             /\ known_entry_count' = got.known
             /\ dir' = (dir \/ (source[p].exists /\ p \in subdir))
             /\ seen' = [Forget(seen, gone) EXCEPT ![p] =
                            IF got.kind = "entry"
                            THEN [valid |-> TRUE, payload |-> got.payload, src |-> source[p]]
                            ELSE NotSeen]
             /\ ret' = [op |-> "lookup", kind |-> got.kind, path |-> p, header |-> got.header,
                        payload |-> got.payload, calls |-> got.calls,
                        update |-> scrubbed.files[p].exists,
                        refill |-> (ret.op = "scrub" /\ p \in ret.removed), removed |-> gone]

Lookup(p) ==
    /\ ret.kind # "entry"
    /\ IF AutoScrubs(options) /\ ~TentativeSkips(TRUE, options, known_entry_count)
       THEN \E q \in WalkOrders : LookupWith(p, AutoScrub(q))
       ELSE LookupWith(p, AutoScrub(<<>>))
    /\ UNCHANGED <<config, codec, adapter, search, request, scheduling, threads, now, source, edits>>

\* EntryWrapper.__exit__: Entry.close() on the Entry the caller holds
Close ==
    /\ ret.kind = "entry"
    /\ cache' = [cache EXCEPT ![ret.path] = EntryClose(@, now)]
    /\ ret' = [NoRet EXCEPT !.op = "close", !.path = ret.path]
    /\ UNCHANGED <<config, codec, adapter, search, request, scheduling, threads, now, source, dir, known_entry_count, seen, edits>>

\* AutoProcess.__call__: the transformer runs on the source, cached = False
Invoke ==
    /\ ret.kind = "auto"
    /\ LET original == source[ret.path]
       IN  ret' = IF ~original.exists
                  THEN [ret EXCEPT !.op = "invoke", !.kind = "raise", !.payload = <<>>, !.calls = 0]
                  ELSE [ret EXCEPT !.op = "invoke",
                                   !.kind = IF FilterRaises(filter_function, FALSE) = "none"
                                            THEN "streamed" ELSE "raise",
                                   !.payload = FilterWrites(filter_function, original.data, FALSE),
                                   !.calls = 1]
    /\ UNCHANGED <<config, codec, adapter, search, request, scheduling, threads, now, source, cache, dir, known_entry_count, seen, edits>>

\* Cache.scrub(): a scrub the caller asks for (tentative = False)
Scrub ==
    /\ ret.kind # "entry"
    /\ \E q \in WalkOrders :
        LET scrubbed == ScrubCall(FALSE, cache, source, options, now, dir, known_entry_count, q)
            gone == Removed(cache, scrubbed.files)
        IN  /\ cache' = scrubbed.files
            /\ known_entry_count' = scrubbed.known
            /\ seen' = Forget(seen, gone)
            /\ ret' = [NoRet EXCEPT !.op = "scrub", !.kind = IF scrubbed.raised THEN "raise" ELSE "true",
                                    !.removed = gone]
    /\ UNCHANGED <<config, codec, adapter, search, request, scheduling, threads, now, source, dir, edits>>

\* The environment: a source file is written (or touched), or removed,
\* and time passes.
WriteSource(p, d) ==
    /\ edits < MaxEdits
    /\ source' = [source EXCEPT ![p] = SourceFile(d, now)]
    /\ edits' = edits + 1
    /\ UNCHANGED <<config, codec, adapter, search, request, scheduling, threads, now, cache, dir, known_entry_count, ret, seen>>

RemoveSource(p) ==
    /\ edits < MaxEdits
    /\ source[p].exists
    /\ source' = [source EXCEPT ![p] = NoSource]
    /\ edits' = edits + 1
    /\ UNCHANGED <<config, codec, adapter, search, request, scheduling, threads, now, cache, dir, known_entry_count, ret, seen>>

Tick ==
    /\ now < MaxTime
    /\ now' = now + 1
    /\ UNCHANGED <<config, codec, adapter, search, request, scheduling, threads, source, cache, dir, known_entry_count, ret, seen, edits>>

Next ==
    \/ \E p \in Paths : Lookup(p)
    \/ Close
    \/ Invoke
    \/ Scrub
    \/ \E p \in 1 .. NEdited, d \in Data : WriteSource(p, d)
    \/ \E p \in 1 .. NEdited : RemoveSource(p)
    \/ Tick

Spec == Init /\ [][Next]_vars

SpecEvict == InitEvict /\ [][Next]_vars

\* ======================================================= concurrent callers
\* fcntl.lockf takes POSIX record locks, which a process owns: a lock is
\* refused only while ANOTHER process holds a conflicting one, a second
\* lockf by the owning process converts its lock, and LOCK_UN or the close
\* of any descriptor of the file drops the process's lock on that file.

\* lockf(fd, LOCK_SH) on the pool's lock file returns
GrantsShared(P) == \A Q \in Procs \ {P} : pool_lock[Q] # "EX"

\* lockf(fd, LOCK_EX) on the pool's lock file returns
GrantsExclusive(P) == \A Q \in Procs \ {P} : pool_lock[Q] = "none"

\* lockf(handle, LOCK_EX) on the entry file of p returns
GrantsEntry(P, p) == entry_lock[p] \in {0, P}

\* An entry left by an earlier run, built from a content the source no
\* longer has
StaleFile ==
    EntryWrite(SetHeader(EntryHeader(SizeOf(2), TRUE, 0, Checksum(2)), 0), FilterWrites("process", 2, TRUE), 0)

\* A Cache without limits on a root an earlier run may have filled: the
\* source of path 1 exists and its entry is missing or stale, the other
\* paths have lost their source and kept an entry.  The callers are the
\* threads of one process or one thread each of separate processes.
InitConc ==
    /\ options = NoLimits
    /\ filter_function \in {"process", "nocache"}
    /\ subdir = {}
    /\ now = 1
    /\ source = [p \in Paths |-> IF p = 1 THEN SourceFile(1, 0) ELSE NoSource]
    /\ cache \in {[p \in Paths |-> IF p = 1 THEN f ELSE IF p \in ConcPaths THEN StaleFile ELSE NoFile] :
                    f \in {NoFile, StaleFile}}
    /\ dir = FALSE
    /\ known_entry_count = 0
    /\ ret = NoRet
    /\ seen = [p \in Paths |-> NotSeen]
    /\ edits = 0
    /\ process_of \in {[c \in Callers |-> 1], [c \in Callers |-> c]}
    /\ NoThreads
    /\ NoAdapter
    /\ NoCodec
    /\ NoSearch
    /\ NoRequest
    /\ NoJobs

sequential == <<now, source, dir, known_entry_count, ret, seen, edits, process_of>>

\* __get_entry, lines 287-295: the call, up to FileLock(lockfile, SHARED).
\* FileLock.__init__ opens the lock file and closes it again, which drops
\* the lock the caller's process holds on it.  (auto_scrub is unset.)
LookupCall(c, p) ==
    /\ pc[c] = "idle" /\ ops[c] < MaxOps
    /\ pc' = [pc EXCEPT ![c] = "acquire_shared"]
    /\ frame' = [frame EXCEPT ![c] = [NoFrame EXCEPT !.op = "lookup", !.path = p]]
    /\ pool_lock' = [pool_lock EXCEPT ![process_of[c]] = "none"]
    /\ ops' = [ops EXCEPT ![c] = @ + 1]
    /\ UNCHANGED <<config, codec, adapter, search, request, scheduling, sequential, cache, entry_lock, invocations, known_of>>

\* FileLock.acquire, SHARED
AcquireShared(c) ==
    /\ pc[c] = "acquire_shared"
    /\ GrantsShared(process_of[c])
    /\ pool_lock' = [pool_lock EXCEPT ![process_of[c]] = "SH"]
    /\ pc' = [pc EXCEPT ![c] = "open"]
    /\ UNCHANGED <<config, codec, adapter, search, request, scheduling, sequential, cache, frame, entry_lock, invocations, known_of, ops>>

\* __get_entry, lines 299-309: LockedFile(original_path) (a shared lock
\* on the source, which nothing locks exclusively), then
\* open(cache_path, 'r+b').  A source that cannot be opened ends the call
\* with KeyError; FileLock.release drops the process's lock on the lock
\* file.
OpenEntry(c) ==
    LET p == frame[c].path
    IN  /\ pc[c] = "open"
        /\ IF ~SourceOpens(source[p])
           THEN /\ pc' = [pc EXCEPT ![c] = "idle"]
                /\ frame' = [frame EXCEPT ![c].kind = "KeyError"]
                /\ pool_lock' = [pool_lock EXCEPT ![process_of[c]] = "none"]
           ELSE /\ pc' = [pc EXCEPT ![c] = IF cache[p].exists THEN "entry" ELSE "create"]
                /\ frame' = [frame EXCEPT ![c].update = cache[p].exists]
                /\ pool_lock' = pool_lock
        /\ UNCHANGED <<config, codec, adapter, search, request, scheduling, sequential, cache, entry_lock, invocations, known_of, ops>>

\* __get_entry, lines 310-313: open(cache_path, 'w+b') after 'r+b' failed
\* creates the file, or truncates the one another caller made since.
CreateEntry(c) ==
    LET p == frame[c].path
    IN  /\ pc[c] = "create"
        /\ cache' = [cache EXCEPT ![p] = EmptyFile(now)]
        /\ pc' = [pc EXCEPT ![c] = "entry"]
        /\ UNCHANGED <<config, codec, adapter, search, request, scheduling, sequential, frame, pool_lock, entry_lock, invocations, known_of, ops>>

\* Entry.__init__: lockf(handle, LOCK_EX), then the header is read
EntryLock(c) ==
    LET p == frame[c].path
    IN  /\ pc[c] = "entry"
        /\ GrantsEntry(process_of[c], p)
        /\ entry_lock' = [entry_lock EXCEPT ![p] = process_of[c]]
        /\ frame' = [frame EXCEPT ![c].header = EntryInit(cache[p])]
        /\ pc' = [pc EXCEPT ![c] = "build"]
        /\ UNCHANGED <<config, codec, adapter, search, request, scheduling, sequential, cache, pool_lock, invocations, known_of, ops>>

\* __get_entry, lines 317-349, with the header Entry.__init__ read, then
\* FileLock.release.  A call that does not return the Entry closes it
\* (Entry.close locks again before it closes the handle).
Build(c) ==
    LET p == frame[c].path
        P == process_of[c]
        got == GetEntryFrom(p, frame[c].header, frame[c].update, cache[p], cache, source,
                            filter_function, now, known_of[P])
    IN  /\ pc[c] = "build"
        /\ got.kind # "entry" => GrantsEntry(P, p)
        /\ cache' = got.files
        /\ known_of' = [known_of EXCEPT ![P] = got.known]
        /\ invocations' = [invocations EXCEPT ![p] = @ + got.calls]
        /\ frame' = [frame EXCEPT ![c].kind = got.kind, ![c].header = got.header]
        /\ entry_lock' = IF got.kind = "entry" THEN entry_lock ELSE [entry_lock EXCEPT ![p] = 0]
        /\ pool_lock' = [pool_lock EXCEPT ![P] = "none"]
        /\ pc' = [pc EXCEPT ![c] = CASE got.kind = "entry" -> "held"
                                     [] got.kind = "auto" -> "auto"
                                     [] OTHER -> "idle"]
        /\ UNCHANGED <<config, codec, adapter, search, request, scheduling, sequential, ops>>

\* The caller reads the Entry it holds to the end, then Entry.close:
\* utime, lockf(LOCK_EX), close.
ReadClose(c) ==
    LET p == frame[c].path
    IN  /\ pc[c] = "held"
        /\ GrantsEntry(process_of[c], p)
        /\ frame' = [frame EXCEPT ![c].payload = cache[p].payload, ![c].kind = "read"]
        /\ cache' = [cache EXCEPT ![p] = IF @.exists THEN EntryClose(@, now) ELSE @]
        /\ entry_lock' = [entry_lock EXCEPT ![p] = 0]
        /\ pc' = [pc EXCEPT ![c] = "idle"]
        /\ UNCHANGED <<config, codec, adapter, search, request, scheduling, sequential, pool_lock, invocations, known_of, ops>>

\* AutoProcess.__call__, line 204: LockedFile.__enter__ opens the source
\* and takes its shared lock (which nothing locks exclusively); no FileLock
\* on the pool's lock file is made.  A source that is gone raises.
AutoEnter(c) ==
    LET p == frame[c].path
    IN  /\ pc[c] = "auto"
        /\ IF SourceOpens(source[p])
           THEN /\ pc' = [pc EXCEPT ![c] = "transform"]
                /\ frame' = frame
           ELSE /\ pc' = [pc EXCEPT ![c] = "idle"]
                /\ frame' = [frame EXCEPT ![c].kind = "raise"]
        /\ UNCHANGED <<config, codec, adapter, search, request, scheduling, sequential, cache, pool_lock, entry_lock, invocations, known_of, ops>>

\* AutoProcess.__call__, line 205: the transformer runs on the source,
\* cached = False; then LockedFile.__exit__
AutoCall(c) ==
    LET p == frame[c].path
    IN  /\ pc[c] = "transform"
        /\ frame' = [frame EXCEPT ![c].payload = FilterWrites(filter_function, source[p].data, FALSE),
                                  ![c].kind = IF FilterRaises(filter_function, FALSE) = "none"
                                              THEN "streamed" ELSE "raise"]
        /\ pc' = [pc EXCEPT ![c] = "idle"]
        /\ UNCHANGED <<config, codec, adapter, search, request, scheduling, sequential, cache, pool_lock, entry_lock, invocations, known_of, ops>>

\* scrub, lines 381-390, on the caller's thread or, queued by
\* DispatcherCache.schedule_scrub, on the worker thread of the process: up
\* to FileLock(lockfile, EXCLUSIVE), whose __init__ opens and closes the
\* lock file.  (tentative is False.)
ScrubStart(c) ==
    /\ pc[c] = "idle" /\ ops[c] < MaxOps
    /\ pc' = [pc EXCEPT ![c] = "acquire_exclusive"]
    /\ frame' = [frame EXCEPT ![c] = [NoFrame EXCEPT !.op = "scrub"]]
    /\ pool_lock' = [pool_lock EXCEPT ![process_of[c]] = "none"]
    /\ ops' = [ops EXCEPT ![c] = @ + 1]
    /\ UNCHANGED <<config, codec, adapter, search, request, scheduling, sequential, cache, entry_lock, invocations, known_of>>

\* scrub called by a caller that holds the Entry of frame[c].path: the
\* frame of the scrub keeps that path
ScrubHolding(c) ==
    /\ pc[c] = "held" /\ ops[c] < MaxOps
    /\ pc' = [pc EXCEPT ![c] = "acquire_exclusive"]
    /\ frame' = [frame EXCEPT ![c] = [NoFrame EXCEPT !.op = "scrub", !.path = frame[c].path]]
    /\ pool_lock' = [pool_lock EXCEPT ![process_of[c]] = "none"]
    /\ ops' = [ops EXCEPT ![c] = @ + 1]
    /\ UNCHANGED <<config, codec, adapter, search, request, scheduling, sequential, cache, entry_lock, invocations, known_of>>

\* scrub returns to its caller, who holds an Entry or none
AfterScrub(f) == IF f.path # 0 THEN "held" ELSE "idle"

\* FileLock.acquire, EXCLUSIVE, then find_files(root)
AcquireExclusive(c) ==
    /\ pc[c] = "acquire_exclusive"
    /\ GrantsExclusive(process_of[c])
    /\ pool_lock' = [pool_lock EXCEPT ![process_of[c]] = "EX"]
    /\ frame' = [frame EXCEPT ![c].todo = find_files(cache)]
    /\ pc' = [pc EXCEPT ![c] = "walk"]
    /\ UNCHANGED <<config, codec, adapter, search, request, scheduling, sequential, cache, entry_lock, invocations, known_of, ops>>

\* scrub, lines 396-410, for one file: ExclusivelyLockedFile opens it
\* 'r+b' and locks it, the file is removed or counted, and __exit__
\* unlocks and closes it.  A file that is gone raises out of scrub.
WalkStep(c, p) ==
    LET P == process_of[c]
    IN  /\ pc[c] = "walk"
        /\ p \in frame[c].todo
        /\ IF ~cache[p].exists
           THEN /\ pc' = [pc EXCEPT ![c] = AfterScrub(frame[c])]
                /\ frame' = [frame EXCEPT ![c].kind = "raise", ![c].todo = {}]
                /\ pool_lock' = [pool_lock EXCEPT ![P] = "none"]
                /\ UNCHANGED <<cache, entry_lock>>
           ELSE /\ GrantsEntry(P, p)
                /\ entry_lock' = [entry_lock EXCEPT ![p] = 0]
                /\ cache' = [cache EXCEPT ![p] = IF WalkRemoves(p, cache, source, options, now) THEN NoFile ELSE @]
                /\ frame' = [frame EXCEPT ![c].todo = @ \ {p},
                                          ![c].entries = IF WalkRemoves(p, cache, source, options, now)
                                                         THEN @ ELSE @ \cup {p},
                                          ![c].stamp[p] = cache[p].modified]
                /\ UNCHANGED <<pc, pool_lock>>
        /\ UNCHANGED <<config, codec, adapter, search, request, scheduling, sequential, invocations, known_of, ops>>

\* scrub, lines 415-416 and 434-443, when the drain loop is not entered:
\* the count, then FileLock.release.
ScrubFinish(c) ==
    LET P == process_of[c]
        kept == frame[c].entries
    IN  /\ pc[c] = "walk"
        /\ frame[c].todo = {}
        /\ ~(options.max_entries # None /\ Cardinality(kept) >= options.max_entries)
        /\ known_of' = [known_of EXCEPT ![P] = IF dir THEN @ ELSE Cardinality(kept)]
        /\ frame' = [frame EXCEPT ![c].kind = IF dir THEN "raise" ELSE "true"]
        /\ pool_lock' = [pool_lock EXCEPT ![P] = "none"]
        /\ pc' = [pc EXCEPT ![c] = AfterScrub(frame[c])]
        /\ UNCHANGED <<config, codec, adapter, search, request, scheduling, sequential, cache, entry_lock, invocations, ops>>

\* scrub, lines 415-420: the entries the walk kept are queued, sorted by
\* the timestamp the walk read
DrainStart(c) ==
    LET kept == frame[c].entries
        walked == [p \in Paths |-> [cache[p] EXCEPT !.modified = frame[c].stamp[p]]]
    IN  /\ pc[c] = "walk"
        /\ frame[c].todo = {}
        /\ options.max_entries # None /\ Cardinality(kept) >= options.max_entries
        /\ \E q \in SortedQueues(kept, walked) :
             frame' = [frame EXCEPT ![c].equeue = q, ![c].ecount = Cardinality(kept)]
        /\ pc' = [pc EXCEPT ![c] = "drain"]
        /\ UNCHANGED <<config, codec, adapter, search, request, scheduling, sequential, cache, pool_lock, entry_lock, invocations, known_of, ops>>

\* scrub, lines 423-430, one turn of the loop: the head of the queue is
\* locked; a file whose time is later than the one the walk read goes back
\* to the tail with that same timestamp, any other is removed.  A file that
\* is gone raises out of scrub.
DrainStep(c) ==
    LET P == process_of[c]
        fname == Head(frame[c].equeue)
    IN  /\ pc[c] = "drain"
        /\ DrainContinues(frame[c].ecount, options)
        /\ frame[c].equeue # <<>>
        /\ IF ~cache[fname].exists
           THEN /\ pc' = [pc EXCEPT ![c] = AfterScrub(frame[c])]
                /\ frame' = [frame EXCEPT ![c].kind = "raise", ![c].equeue = <<>>]
                /\ pool_lock' = [pool_lock EXCEPT ![P] = "none"]
                /\ UNCHANGED <<cache, entry_lock>>
           ELSE /\ GrantsEntry(P, fname)
                /\ entry_lock' = [entry_lock EXCEPT ![fname] = 0]
                /\ IF cache[fname].modified > frame[c].stamp[fname]
                   THEN /\ frame' = [frame EXCEPT ![c].equeue = Tail(@) \o <<fname>>]
                        /\ cache' = cache
                   ELSE /\ frame' = [frame EXCEPT ![c].equeue = Tail(@), ![c].ecount = @ - 1]
                        /\ cache' = [cache EXCEPT ![fname] = NoFile]
                /\ UNCHANGED <<pc, pool_lock>>
        /\ UNCHANGED <<config, codec, adapter, search, request, scheduling, sequential, invocations, known_of, ops>>

\* scrub, lines 422 and 431-443: the loop ends when the count is below
\* max_entries or the queue is empty (Empty is caught); the count, then
\* FileLock.release.
DrainEnd(c) ==
    LET P == process_of[c]
    IN  /\ pc[c] = "drain"
        /\ ~DrainContinues(frame[c].ecount, options) \/ frame[c].equeue = <<>>
        /\ known_of' = [known_of EXCEPT ![P] = IF dir THEN @ ELSE frame[c].ecount]
        /\ frame' = [frame EXCEPT ![c].kind = IF dir THEN "raise" ELSE "true", ![c].equeue = <<>>]
        /\ pool_lock' = [pool_lock EXCEPT ![P] = "none"]
        /\ pc' = [pc EXCEPT ![c] = AfterScrub(frame[c])]
        /\ UNCHANGED <<config, codec, adapter, search, request, scheduling, sequential, cache, entry_lock, invocations, ops>>

NextConc ==
    \/ \E c \in Callers, p \in ConcPaths : LookupCall(c, p)
    \/ \E c \in Callers : AcquireShared(c)
    \/ \E c \in Callers : OpenEntry(c)
    \/ \E c \in Callers : CreateEntry(c)
    \/ \E c \in Callers : EntryLock(c)
    \/ \E c \in Callers : Build(c)
    \/ \E c \in Callers : ReadClose(c)
    \/ \E c \in Callers : AutoEnter(c)
    \/ \E c \in Callers : AutoCall(c)
    \/ \E c \in Callers : ScrubStart(c)
    \/ \E c \in Callers : AcquireExclusive(c)
    \/ \E c \in Callers, p \in ConcPaths : WalkStep(c, p)
    \/ \E c \in Callers : ScrubFinish(c)

SpecConc == InitConc /\ [][NextConc]_vars

\* A Cache with max_entries set on a root an earlier run filled: the sources
\* of the shared paths exist, each has an entry except perhaps the last.
\* The transformer is one that caches, so no lookup leaves a tombstone and
\* none returns an AutoProcess.
InitDrain ==
    /\ options = Options(None, MinMaxEntries, FALSE)
    /\ filter_function = "process"
    /\ subdir = {}
    /\ now = 1
    /\ source = [p \in Paths |-> IF p \in ConcPaths THEN SourceFile(1, 0) ELSE NoSource]
    /\ cache \in {[p \in Paths |-> IF p \in ConcPaths \ {NConcPaths} THEN StaleFile
                                    ELSE IF p = NConcPaths THEN f ELSE NoFile] :
                    f \in {NoFile, StaleFile}}
    /\ dir = FALSE
    /\ known_entry_count = 0
    /\ ret = NoRet
    /\ seen = [p \in Paths |-> NotSeen]
    /\ edits = 0
    /\ process_of \in {[c \in Callers |-> 1], [c \in Callers |-> c]}
    /\ NoThreads
    /\ NoAdapter
    /\ NoCodec
    /\ NoSearch
    /\ NoRequest
    /\ NoJobs

NextDrain ==
    \/ \E c \in Callers, p \in ConcPaths : LookupCall(c, p)
    \/ \E c \in Callers : AcquireShared(c)
    \/ \E c \in Callers : OpenEntry(c)
    \/ \E c \in Callers : CreateEntry(c)
    \/ \E c \in Callers : EntryLock(c)
    \/ \E c \in Callers : Build(c)
    \/ \E c \in Callers : ReadClose(c)
    \/ \E c \in Callers : ScrubStart(c)
    \/ \E c \in Callers : ScrubHolding(c)
    \/ \E c \in Callers : AcquireExclusive(c)
    \/ \E c \in Callers, p \in ConcPaths : WalkStep(c, p)
    \/ \E c \in Callers : ScrubFinish(c)
    \/ \E c \in Callers : DrainStart(c)
    \/ \E c \in Callers : DrainStep(c)
    \/ \E c \in Callers : DrainEnd(c)

SpecDrain == InitDrain /\ [][NextDrain]_vars

\* What a thread that is inside lookup, inside scrub or holding an Entry
\* does next; the scheduler runs every thread that can run, and a caller
\* closes the Entry it holds.
Continue(c) ==
    \/ AcquireShared(c)
    \/ OpenEntry(c)
    \/ CreateEntry(c)
    \/ EntryLock(c)
    \/ Build(c)
    \/ ReadClose(c)
    \/ AcquireExclusive(c)
    \/ \E p \in ConcPaths : WalkStep(c, p)
    \/ ScrubFinish(c)
    \/ DrainStart(c)
    \/ DrainStep(c)
    \/ DrainEnd(c)

SpecDrainFair == SpecDrain /\ \A c \in Callers : WF_vars(Continue(c))

\* ======================================================= lookup paths
\* A path is the sequence of its components, str.split('/'): '' is <<"">>,
\* '/a' is <<"", "a">>, 'a//b' is <<"a", "", "b">>.  "a" is a name, ".h" a
\* name that starts with a dot.
Components == {"", ".", "..", ".h", "a"}

RawPaths == UNION {[1 .. n -> Components] : n \in 1 .. MaxDepth}

\* path.startswith('/')
IsAbsolute(comps) == Len(comps) > 1 /\ comps[1] = ""

\* posixpath.normpath, the loop over the components: '' and '.' are
\* dropped, '..' removes the component before it, and stays at the head
\* of a relative path and after another '..'.
RECURSIVE NormComps(_, _, _)
NormComps(comps, new_comps, initial_slashes) ==
    IF comps = <<>> THEN new_comps
    ELSE LET comp == Head(comps)
             n == Len(new_comps)
         IN  IF comp \in {"", "."}
             THEN NormComps(Tail(comps), new_comps, initial_slashes)
             ELSE IF comp # ".." \/ (~initial_slashes /\ n = 0) \/ (n > 0 /\ new_comps[n] = "..")
             THEN NormComps(Tail(comps), Append(new_comps, comp), initial_slashes)
             ELSE IF n > 0
             THEN NormComps(Tail(comps), SubSeq(new_comps, 1, n - 1), initial_slashes)
             ELSE NormComps(Tail(comps), new_comps, initial_slashes)

\* Mutant: the path is not normalized
normpath_Identity(comps) == comps

\* os.path.normpath(path), split at '/' again: '.' for an empty result, a
\* leading '' for an absolute path.
normpath(comps) ==
    LET new_comps == NormComps(comps, <<>>, IsAbsolute(comps))
    IN  IF IsAbsolute(comps)
        THEN IF new_comps = <<>> THEN <<"", "">> ELSE <<"">> \o new_comps
        ELSE IF new_comps = <<>> THEN <<".">> ELSE new_comps

\* Mutant: only '..' counts
StartsWithDot_OnlyParent(part) == part = ".."

\* part.startswith('.')
StartsWithDot(part) == part \in {".", "..", ".h"}

\* __get_entry, lines 288-290: the ValueError for a normalized path with a
\* part that starts with '.'
PathRejected(comps) == \E i \in DOMAIN comps : StartsWithDot(comps[i])

\* A Cache that is given one path
InitPath ==
    /\ options = NoLimits
    /\ filter_function = "process"
    /\ subdir = {}
    /\ now = 0
    /\ source = [p \in Paths |-> SourceFile(1, 0)]
    /\ cache = [p \in Paths |-> NoFile]
    /\ dir = FALSE
    /\ known_entry_count = 0
    /\ ret = NoRet
    /\ seen = [p \in Paths |-> NotSeen]
    /\ edits = 0
    /\ process_of = [c \in Callers |-> 1]
    /\ NoThreads
    /\ NoAdapter
    /\ NoCodec
    /\ NoSearch
    /\ NoJobs
    /\ key \in RawPaths
    /\ normalized = <<>>
    /\ verdict = "none"

\* __get_entry, lines 288-290: the path is normalized and checked before
\* the scrub is scheduled (292) and the pool lock is taken (296).
CheckPath ==
    /\ verdict = "none"
    /\ normalized' = normpath(key)
    /\ verdict' = IF PathRejected(normpath(key)) THEN "ValueError" ELSE "accepted"
    /\ UNCHANGED <<config, codec, adapter, search, sequential, threads, scheduling, cache, key>>

NextPath == CheckPath

SpecPath == InitPath /\ [][NextPath]_vars

\* The roots of the pool: source_root is '/s' and the cache root is '/c'
SourceRoot == <<"", "s">>

CacheRoot == <<"", "c">>

\* The paths given to cache[key] when the names of the roots are known
RootedPaths == UNION {[1 .. n -> Components \cup {"c", "s"}] : n \in 1 .. MaxDepth}

\* posixpath.join(a, b): an absolute b replaces a
path_join(a, b) == IF IsAbsolute(b) THEN b ELSE a \o b

\* posixpath.dirname of a normalized absolute path: '/' for a file of '/'
dirname(comps) ==
    LET head == SubSeq(comps, 1, Len(comps) - 1)
    IN  IF head = <<"">> THEN <<"", "">> ELSE head

\* __get_entry, line 300
original_path(path) == normpath(path_join(SourceRoot, path))

\* __get_entry, line 303
cache_path(path) == normpath(path_join(CacheRoot, path))

\* mkdir_p, lines 231-236: ValueError('name is not under root') when a
\* part of name differs from the part of root at its place; parts beyond
\* the root are directories to make
mkdir_p_Raises(root, name) ==
    \E i \in 1 .. Len(name) : i <= Len(root) /\ root[i] # name[i]

\* path lies below root
Under(path, root) ==
    Len(path) > Len(root) /\ SubSeq(path, 1, Len(root)) = root

\* '/' and the two roots are directories: open(path, 'rb') fails
IsDirectory(path) == path \in {<<"", "">>, SourceRoot, CacheRoot}

\* A Cache that is given one path, by a caller who knows the roots
InitOpen ==
    /\ options = NoLimits
    /\ filter_function = "process"
    /\ subdir = {}
    /\ now = 0
    /\ source = [p \in Paths |-> SourceFile(1, 0)]
    /\ cache = [p \in Paths |-> NoFile]
    /\ dir = FALSE
    /\ known_entry_count = 0
    /\ ret = NoRet
    /\ seen = [p \in Paths |-> NotSeen]
    /\ edits = 0
    /\ process_of = [c \in Callers |-> 1]
    /\ NoThreads
    /\ NoAdapter
    /\ NoCodec
    /\ NoSearch
    /\ NoJobs
    /\ key \in RootedPaths
    /\ normalized = <<>>
    /\ verdict = "none"

\* __get_entry, lines 288-316, up to the open of the cache file: the path
\* check, LockedFile(original_path), whose open fails (KeyError) when no
\* file has that name, mkdir_p(root, dirname(cache_path)), and the open
\* of cache_path.
OpenPaths ==
    /\ verdict = "none"
    /\ normalized' = normpath(key)
    /\ \E is_file \in BOOLEAN :
         verdict' = IF PathRejected(normpath(key)) THEN "ValueError"
                    ELSE IF ~is_file \/ IsDirectory(original_path(normpath(key))) THEN "KeyError"
                    ELSE IF mkdir_p_Raises(CacheRoot, dirname(cache_path(normpath(key)))) THEN "not under root"
                    ELSE "opened"
    /\ UNCHANGED <<config, codec, adapter, search, sequential, threads, scheduling, cache, key>>

NextOpen == OpenPaths

SpecOpen == InitOpen /\ [][NextOpen]_vars

\* ======================================================= workers
\* A Job: its callable and argument, and what Job.complete or
\* Job.complete_exception recorded.  runs counts the calls of the callable
\* and by is the Worker that took the Job.
\*   "process"  WorkerTest.process: count += incr; return count
\*   "rexc"     WorkerTest.rexc: raise ValueError()
\*   "finish"   Finished.finish: raise Finished (the sentinel)
\*   "scrub"    Cache.scrub, scheduled by DispatcherCache.schedule_scrub
Job(func, arg) ==
    [func |-> func, arg |-> arg, completed |-> FALSE, result |-> None, exception |-> "none",
     runs |-> 0, by |-> 0]

\* A Worker thread that was started and waits in queue.get()
Started == [pc |-> "get", job |-> 0, loaded |-> 0]

\* Mutant: the newest Job is taken first
QueueGet_Lifo(q) == [job |-> q[Len(q)], rest |-> SubSeq(q, 1, Len(q) - 1)]

\* Queue.get on a queue that is not empty: the oldest Job
QueueGet(q) == [job |-> Head(q), rest |-> Tail(q)]

\* What the call of a Job's callable raises
Raises(func) ==
    CASE func = "rexc" -> "ValueError"
      [] func = "finish" -> "Finished"
      [] OTHER -> "none"

\* Mutant: any exception ends the loop
LoopContinues_OnlyOnSuccess(raised) == raised = "none"

\* Worker.run, lines 138-144: only 'except Finished' breaks out of the
\* loop.
LoopContinues(raised) == raised # "Finished"

\* Job.complete(result)
complete(job, result, w) ==
    [job EXCEPT !.completed = TRUE, !.result = result, !.runs = @ + 1, !.by = w]

\* Job.complete_exception(exception)
complete_exception(job, exception, w) ==
    [job EXCEPT !.completed = TRUE, !.exception = exception, !.runs = @ + 1, !.by = w]

\* Job.wait() with no timeout, once the Job is complete: the exception is
\* raised again, or the result returned.
wait(job) ==
    IF job.exception # "none"
    THEN [raises |-> job.exception, returns |-> None]
    ELSE [raises |-> "none", returns |-> job.result]

\* The Workers whose thread was started
StartedWorkers == {w \in Workers : worker[w].pc # "unstarted"}

\* Thread.join() has returned for every started Worker
Joined == \A w \in StartedWorkers : worker[w].pc = "exited"

\* The files and the Cache are left alone by the workers' test jobs.
InitNoCache ==
    /\ options = NoLimits
    /\ filter_function = "process"
    /\ subdir = {}
    /\ now = 0
    /\ source = [p \in Paths |-> SourceFile(1, 0)]
    /\ cache = [p \in Paths |-> NoFile]
    /\ dir = FALSE
    /\ known_entry_count = 0
    /\ ret = NoRet
    /\ seen = [p \in Paths |-> NotSeen]
    /\ edits = 0
    /\ process_of = [c \in Callers |-> 1]
    /\ NoThreads
    /\ NoAdapter
    /\ NoCodec
    /\ NoSearch
    /\ NoRequest

\* Worker(autostart = True): one thread on its own queue
InitWorker ==
    /\ InitNoCache
    /\ jobs = <<>>
    /\ queue = <<>>
    /\ worker = [w \in Workers |-> IF w = 1 THEN Started ELSE Unstarted]
    /\ count = 0

\* WorkerPool(size, autostart = True): size threads on one queue
InitPool ==
    /\ InitNoCache
    /\ jobs = <<>>
    /\ queue = <<>>
    /\ worker = [w \in Workers |-> Started]
    /\ count = 0

store == <<now, source, cache, dir, known_entry_count, ret, seen, edits>>

\* Queued.schedule(func, arg): a new Job is put on the queue
schedule(func, arg) ==
    /\ Len(jobs) < MaxJobs
    /\ jobs' = Append(jobs, Job(func, arg))
    /\ queue' = Append(queue, Len(jobs) + 1)
    /\ UNCHANGED <<config, codec, adapter, search, request, threads, store, worker, count>>

\* Mutant: one sentinel, whatever the number of Workers
FinishJobs_One(n) == <<Job("finish", 0)>>

\* WorkerPool.finish(): worker.finish() for each of the n Workers, each
\* scheduling one Finished.finish on the shared queue.
FinishJobs(n) == [i \in 1 .. n |-> Job("finish", 0)]

\* Worker.finish() / WorkerPool.finish(): one Finished.finish is scheduled
\* for each Worker.  (Called once.)
finish ==
    LET sentinels == FinishJobs(Cardinality(StartedWorkers))
    IN  /\ \A i \in DOMAIN jobs : jobs[i].func # "finish"
        /\ jobs' = jobs \o sentinels
        /\ queue' = queue \o [i \in DOMAIN sentinels |-> Len(jobs) + i]
        /\ UNCHANGED <<config, codec, adapter, search, request, threads, store, worker, count>>

\* Worker.run, line 134: job = queue.get()
Get(w) ==
    /\ worker[w].pc = "get"
    /\ queue # <<>>
    /\ worker' = [worker EXCEPT ![w] = [pc |-> "call", job |-> QueueGet(queue).job, loaded |-> 0]]
    /\ queue' = QueueGet(queue).rest
    /\ UNCHANGED <<config, codec, adapter, search, request, threads, store, jobs, count>>

\* Worker.run, line 137, job() of a "process" Job: 'self.count += incr'
\* reads the counter ...
Load(w) ==
    /\ worker[w].pc = "call"
    /\ jobs[worker[w].job].func = "process"
    /\ worker' = [worker EXCEPT ![w].pc = "store", ![w].loaded = count]
    /\ UNCHANGED <<config, codec, adapter, search, request, threads, store, jobs, queue, count>>

\* ... and writes it; no lock is held in between.
Store(w) ==
    /\ worker[w].pc = "store"
    /\ count' = worker[w].loaded + jobs[worker[w].job].arg
    /\ worker' = [worker EXCEPT ![w].pc = "return"]
    /\ UNCHANGED <<config, codec, adapter, search, request, threads, store, jobs, queue>>

\* 'return self.count', then job.complete(result) and task_done()
Return(w) ==
    /\ worker[w].pc = "return"
    /\ jobs' = [jobs EXCEPT ![worker[w].job] = complete(@, count, w)]
    /\ worker' = [worker EXCEPT ![w] = [pc |-> "get", job |-> worker[w].job, loaded |-> 0]]
    /\ UNCHANGED <<config, codec, adapter, search, request, threads, store, queue, count>>

\* Worker.run, lines 138-146, for a Job whose callable raises: Finished
\* completes the Job with None and ends the loop, any other exception is
\* recorded on the Job.
Except(w) ==
    LET job == jobs[worker[w].job]
        raised == Raises(job.func)
    IN  /\ worker[w].pc = "call"
        /\ raised # "none"
        /\ jobs' = [jobs EXCEPT ![worker[w].job] =
                       IF raised = "Finished" THEN complete(@, None, w) ELSE complete_exception(@, raised, w)]
        /\ worker' = [worker EXCEPT ![w].pc = IF LoopContinues(raised) THEN "get" ELSE "exited"]
        /\ UNCHANGED <<config, codec, adapter, search, request, threads, store, queue, count>>

NextWorker ==
    \/ \E arg \in 1 .. MaxIncr : schedule("process", arg)
    \/ schedule("rexc", 0)
    \/ finish
    \/ \E w \in Workers : Get(w)
    \/ \E w \in Workers : Load(w)
    \/ \E w \in Workers : Store(w)
    \/ \E w \in Workers : Return(w)
    \/ \E w \in Workers : Except(w)

SpecWorker == InitWorker /\ [][NextWorker]_vars

SpecPool == InitPool /\ [][NextWorker]_vars

\* One Worker thread's next step.  A started thread that can run is
\* eventually run by the interpreter; the callers are under no such
\* obligation.
Run(w) == Get(w) \/ Load(w) \/ Store(w) \/ Return(w) \/ Except(w)

SpecWorkerFair == SpecWorker /\ \A w \in Workers : WF_vars(Run(w))

SpecPoolFair == SpecPool /\ \A w \in Workers : WF_vars(Run(w))

\* ------------------------------------------------------- header on the wire
\* The headers EntryHeader.__init__ accepts, with times on both sides of
\* the epoch and checksums of length 0 .. MaxChecksumLen
Stamps == (-(MaxSeconds * MicrosPerSecond)) .. (MaxSeconds * MicrosPerSecond)

Checksums == UNION {[1 .. n -> 0 .. 1] : n \in 0 .. MaxChecksumLen}

Headers ==
    {EntryHeader(size, cached, timestamp, checksum) :
        size \in 0 .. 1, cached \in BOOLEAN, timestamp \in Stamps, checksum \in Checksums}

\* struct.pack with format 'Q': an unsigned field takes no negative value
PacksUnsigned(n) == n >= 0

\* EntryHeader.write(stream): MAGIC, the packed fields, the checksum
write(h) ==
    LET fp == datetime2fp(h.timestamp)
    IN  IF ~PacksUnsigned(fp[1])
        THEN [NoWire EXCEPT !.raises = "struct.error"]
        ELSE [raises |-> "none", size |-> h.size, cached |-> h.cached, seconds |-> fp[1],
              microseconds |-> fp[2], cksum_len |-> Len(h.checksum), checksum |-> h.checksum]

\* EntryHeader.read(stream) on what write() produced: checksum stays None
\* when cksum_len is 0, and len(None) is a TypeError.
read(stream) ==
    IF stream.cksum_len = 0
    THEN [raises |-> "TypeError", header |-> NoneHeader]
    ELSE [raises |-> "none",
          header |-> EntryHeader(stream.size, stream.cached,
                                 fp2datetime(stream.seconds, stream.microseconds),
                                 SubSeq(stream.checksum, 1, stream.cksum_len))]

InitHeader ==
    /\ InitNoCache
    /\ NoJobs

\* header = EntryHeader(size, cached, timestamp, checksum)
MakeHeader(h) ==
    /\ given = NoneHeader
    /\ given' = h
    /\ UNCHANGED <<config, adapter, search, request, scheduling, threads, store, wire, decoded>>

\* header.write(stream)
WriteHeader ==
    /\ given # NoneHeader
    /\ wire = NoWire
    /\ wire' = write(given)
    /\ UNCHANGED <<config, adapter, search, request, scheduling, threads, store, given, decoded>>

\* EntryHeader.read(stream)
ReadHeader ==
    /\ wire.raises = "none"
    /\ decoded = NoDecoded
    /\ decoded' = read(wire)
    /\ UNCHANGED <<config, adapter, search, request, scheduling, threads, store, given, wire>>

NextHeader ==
    \/ \E h \in Headers : MakeHeader(h)
    \/ WriteHeader
    \/ ReadHeader

SpecHeader == InitHeader /\ [][NextHeader]_vars

\* ------------------------------------------------------- foreign bytes
\* What an existing cache file may hold.  st_size tells whether the file is
\* empty, shorter than EntryHeader.minsize, or at least that long; magic
\* whether it starts with MAGIC; checksum holds the bytes that follow the
\* packed fields, which may be fewer than cksum_len.
FileBytes ==
    {[raises |-> "none", st_size |-> n, magic |-> m, size |-> 1, cached |-> c, seconds |-> 0,
      microseconds |-> 0, cksum_len |-> k, checksum |-> sum] :
        n \in {"empty", "short", "full"}, m \in BOOLEAN, c \in BOOLEAN,
        k \in 0 .. MaxChecksumLen, sum \in Checksums}

\* The file the code is looked up for
Planted == 1

\* Entry.__init__, lines 107-114: a file shorter than minsize is inactive;
\* EntryHeader.read raises ValueError for a wrong magic and for a checksum
\* that is cut short, which makes the Entry inactive too; any other
\* exception of read leaves __init__.
EntryOpen(b) ==
    IF b.st_size # "full" THEN [raises |-> "none", header |-> NoneHeader]
    ELSE IF ~b.magic THEN [raises |-> "none", header |-> NoneHeader]
    ELSE IF b.cksum_len > 0 /\ Len(b.checksum) < b.cksum_len THEN [raises |-> "none", header |-> NoneHeader]
    ELSE read(b)

\* The header bytes of the cache model for a file that holds b: the
\* one-byte checksum is the digest it spells.
AsHeaderBytes(b) ==
    LET opened == EntryOpen(b)
    IN  IF opened.raises # "none" \/ ~opened.header.valid THEN NoBytes
        ELSE [bad |-> FALSE, size |-> b.size, cached |-> b.cached, seconds |-> b.seconds,
              microseconds |-> b.microseconds, checksum |-> opened.header.checksum[1]]

\* A Cache over a root in which the entry file of one path already exists
\* with some content; the scrub of the constructor has counted it.
InitBytes ==
    /\ options = NoLimits
    /\ filter_function \in {"process", "nocache"}
    /\ subdir = {}
    /\ now = 0
    /\ source = [p \in Paths |-> SourceFile(1, 0)]
    /\ \E b \in FileBytes :
        /\ wire = b
        /\ cache = [p \in Paths |-> IF p = Planted THEN CacheFile(AsHeaderBytes(b), <<>>, 0) ELSE NoFile]
    /\ given = NoneHeader
    /\ decoded = NoDecoded
    /\ dir = FALSE
    /\ known_entry_count = 1
    /\ ret = NoRet
    /\ seen = [p \in Paths |-> NotSeen]
    /\ edits = 0
    /\ process_of = [c \in Callers |-> 1]
    /\ NoThreads
    /\ NoAdapter
    /\ NoSearch
    /\ NoRequest
    /\ NoJobs

\* __get_entry(path): as Lookup, with Entry(handle) reading the bytes of
\* the file that was found.  An exception of Entry.__init__ other than
\* IOError leaves __get_entry (the handlers of lines 350-357 are for
\* IOError) with the file as it was; otherwise the file is rewritten.
LookupBytes(p) ==
    /\ ret.kind # "entry"
    /\ IF p = Planted /\ wire # NoWire /\ source[p].exists /\ EntryOpen(wire).raises # "none"
       THEN /\ ret' = [NoRet EXCEPT !.op = "lookup", !.kind = EntryOpen(wire).raises, !.path = p]
            /\ decoded' = EntryOpen(wire)
            /\ UNCHANGED <<cache, known_entry_count, dir, seen, wire>>
       ELSE /\ LookupWith(p, AutoScrub(<<>>))
            /\ wire' = IF p = Planted /\ source[p].exists THEN NoWire ELSE wire
            /\ decoded' = IF p = Planted /\ wire # NoWire /\ source[p].exists THEN EntryOpen(wire) ELSE decoded
    /\ UNCHANGED <<config, adapter, search, request, scheduling, threads, now, source, edits, given>>

NextBytes ==
    \/ \E p \in Paths : LookupBytes(p)
    \/ Close
    \/ Invoke
    \/ \E p \in 1 .. NEdited, d \in Data : WriteSource(p, d)

SpecBytes == InitBytes /\ [][NextBytes]_vars

\* ------------------------------------------------------- RWAdapter
\* The attributes a RWAdapter has: those of Job and its own
JobMethods ==
    {"abbrev_info_unlocked", "full_info_unlocked", "stack", "complete", "complete_exception",
     "result", "wait"}

RWAdapterMethods == JobMethods \cup {"run", "read", "close_read"}

\* RWAdapter.close_read(): the read end is closed, then self.join() is
\* looked up on the RWAdapter.
close_read ==
    [read |-> "closed",
     raises |-> IF "join" \in RWAdapterMethods THEN "none" ELSE "AttributeError"]

\* worker.RWAdapter(method) and schedule(reader): the pipe is made and the
\* Job put on the queue; the sink function will write n chunks.
AdapterSchedule(n) ==
    /\ Len(jobs) < MaxJobs
    /\ \A k \in DOMAIN jobs : jobs[k].func # "adapter"
    /\ jobs' = Append(jobs, Job("adapter", n))
    /\ queue' = Append(queue, Len(jobs) + 1)
    /\ read_end' = "open"
    /\ pipe' = 0
    /\ chunks' = 0
    /\ released' = "no"
    /\ UNCHANGED <<config, codec, search, request, threads, store, worker, count>>

\* RWAdapter.read(): the submitter takes a chunk out of the pipe
AdapterRead ==
    /\ read_end = "open"
    /\ pipe > 0
    /\ pipe' = pipe - 1
    /\ UNCHANGED <<config, codec, search, request, threads, store, scheduling, read_end, chunks, released>>

\* RWAdapter.__exit__: the submitter leaves the 'with reader:' block
AdapterExit ==
    /\ read_end = "open"
    /\ read_end' = close_read.read
    /\ pipe' = IF close_read.read = "closed" THEN 0 ELSE pipe
    /\ released' = IF close_read.raises = "none" THEN "returned" ELSE close_read.raises
    /\ UNCHANGED <<config, codec, search, request, threads, store, scheduling, chunks>>

\* RWAdapter.run, inside method(outf): the sink function writes a chunk.
\* With the read end closed the write fails with an IOError (EPIPE), which
\* run() swallows: the Job completes with None.  A full pipe blocks the
\* write.
AdapterWrite(w) ==
    /\ worker[w].pc = "call"
    /\ jobs[worker[w].job].func = "adapter"
    /\ chunks < jobs[worker[w].job].arg
    /\ IF read_end = "closed"
       THEN /\ jobs' = [jobs EXCEPT ![worker[w].job] = complete(@, None, w)]
            /\ worker' = [worker EXCEPT ![w].pc = "get"]
            /\ UNCHANGED <<pipe, chunks>>
       ELSE /\ pipe < PipeCap
            /\ pipe' = pipe + 1
            /\ chunks' = chunks + 1
            /\ UNCHANGED <<jobs, worker>>
    /\ UNCHANGED <<config, codec, search, request, threads, store, queue, count, read_end, released>>

\* RWAdapter.run: the sink function has written everything; outf is closed
\* and the Job completes with None.
AdapterDone(w) ==
    /\ worker[w].pc = "call"
    /\ jobs[worker[w].job].func = "adapter"
    /\ chunks = jobs[worker[w].job].arg
    /\ jobs' = [jobs EXCEPT ![worker[w].job] = complete(@, None, w)]
    /\ worker' = [worker EXCEPT ![w].pc = "get"]
    /\ UNCHANGED <<config, codec, search, request, threads, store, queue, count, adapter>>

NextAdapter ==
    \/ NextWorker
    \/ \E n \in 1 .. MaxChunks : AdapterSchedule(n)
    \/ AdapterRead
    \/ AdapterExit
    \/ \E w \in Workers : AdapterWrite(w)
    \/ \E w \in Workers : AdapterDone(w)

\* RWAdapterTest.setUp: one Worker
SpecAdapter == InitWorker /\ [][NextAdapter]_vars

SpecAdapterFair ==
    SpecAdapter /\ \A w \in Workers : WF_vars(Run(w) \/ AdapterWrite(w) \/ AdapterDone(w))

\* ------------------------------------------------------- SearchCache
\* Mutant: only a missing mtime makes a stored entry stale
Stale_NullOnly(entry_timestamp, mtime) == mtime = None

\* __call__, line 144 (and scrub, line 202): the stored entry may not be
\* used
Stale(entry_timestamp, mtime) == mtime = None \/ entry_timestamp < mtime

\* Mutant: a hit leaves the stored date alone
Refreshed_Keep(date, t) == date

\* __call__, line 147: self.__db[date_key] = self.utcnow()
Refreshed(date, t) == t

\* scrub, lines 197-209: the filters whose entry the walk keeps; t is the
\* time at which the cutoff was computed.
SearchKept(d, mtime, opts, t) ==
    {f \in SearchFilters :
        /\ d[f].list # None
        /\ ~Stale(d[f].date, mtime)
        /\ ~(opts.max_age # None /\ d[f].date < t - opts.max_age)}

\* Mutant: the newest entries go first
SearchVictims_Newest(d, kept, opts) ==
    IF opts.max_entries # None /\ Cardinality(kept) > opts.max_entries
    THEN {V \in SUBSET kept :
             /\ Cardinality(V) = Cardinality(kept) - opts.max_entries
             /\ \A v \in V : \A f \in kept \ V : d[v].date >= d[f].date}
    ELSE {{}}

\* scrub, lines 210-215: the entries removed for max_entries, oldest date
\* first; entries of equal date go in either order.
SearchVictims(d, kept, opts) ==
    IF opts.max_entries # None /\ Cardinality(kept) > opts.max_entries
    THEN {V \in SUBSET kept :
             /\ Cardinality(V) = Cardinality(kept) - opts.max_entries
             /\ \A v \in V : \A f \in kept \ V : d[v].date <= d[f].date}
    ELSE {{}}

\* scrub, lines 196-216, under the lock: the possible outcomes
SearchScrubbed(d, mtime, opts, t) ==
    LET kept == SearchKept(d, mtime, opts, t)
    IN  {[db |-> [f \in SearchFilters |->
                     IF d[f].list = None THEN d[f]
                     ELSE IF f \in kept \ V THEN d[f] ELSE NoEntry],
          length |-> Cardinality(kept \ V)] : V \in SearchVictims(d, kept, opts)}

\* A SearchCache over a tree that has files or none, with no limit or with
\* max_entries and auto_scrub, used by one caller thread (the other callers
\* make no call).
InitSearch ==
    /\ options \in {NoLimits, Options(None, MinMaxEntries, TRUE), Options(MaxAge, None, FALSE)}
    /\ filter_function = "process"
    /\ subdir = {}
    /\ now = 0
    /\ source = [p \in Paths |-> SourceFile(1, 0)]
    /\ cache = [p \in Paths |-> NoFile]
    /\ dir = FALSE
    /\ known_entry_count = 0
    /\ ret = NoRet
    /\ seen = [p \in Paths |-> NotSeen]
    /\ edits = 0
    /\ process_of = [c \in Callers |-> 1]
    /\ pc = [c \in Callers |-> "idle"]
    /\ frame = [c \in Callers |-> NoFrame]
    /\ pool_lock = [P \in Procs |-> "none"]
    /\ entry_lock = [p \in Paths |-> 0]
    /\ invocations = [p \in Paths |-> 0]
    /\ known_of = [P \in Procs |-> 0]
    /\ ops = [c \in Callers |-> IF c = 1 THEN 0 ELSE SearchOps]
    /\ NoAdapter
    /\ NoCodec
    /\ NoRequest
    /\ NoJobs
    /\ db = [f \in SearchFilters |-> NoEntry]
    /\ length = 0
    /\ scans = 0
    /\ LATEST_MTIME \in {None, 0}
    /\ tree = 0
    /\ query = [c \in Callers |-> NoQuery]

\* The caller is back from its call: what it got, its locals gone
Returned(q, kind, result) ==
    [NoQuery EXCEPT !.op = q.op, !.filter = q.filter, !.updating = q.updating, !.kind = kind, !.result = result]

locks == <<process_of, pc, frame, pool_lock, entry_lock, invocations, known_of>>

files_and_clock == <<now, source, cache, dir, known_entry_count, ret, seen>>

\* __call__, lines 129-140: the scrub of auto_scrub (tentative, run in the
\* caller), then mtime = latest_mtime_callback(False)
QueryCall(c, f) ==
    /\ query[c].pc = "idle"
    /\ ops[c] < SearchOps
    /\ ops' = [ops EXCEPT ![c] = @ + 1]
    /\ IF AutoScrubs(options) /\ ~(length < options.max_entries)
       THEN \E r \in SearchScrubbed(db, LATEST_MTIME, options, now) : db' = r.db /\ length' = r.length
       ELSE UNCHANGED <<db, length>>
    /\ query' = [query EXCEPT ![c] = [NoQuery EXCEPT !.pc = "check", !.op = "query", !.filter = f,
                                                     !.mtime = LATEST_MTIME]]
    /\ UNCHANGED <<config, codec, adapter, request, scheduling, locks, files_and_clock, edits, scans, LATEST_MTIME, tree>>

\* __call__, lines 141-154, under the lock: a usable entry is refreshed and
\* returned; a missing one (KeyError) or a stale one (ValueError) sends the
\* caller to the scan.
QueryCheck(c) ==
    LET q == query[c]
        entry == db[q.filter]
    IN  /\ q.pc = "check"
        /\ IF entry.date = None
           THEN /\ query' = [query EXCEPT ![c].pc = "scan", ![c].updating = FALSE]
                /\ db' = db
           ELSE IF Stale(entry.date, q.mtime)
           THEN /\ query' = [query EXCEPT ![c].pc = "scan", ![c].entry_timestamp = entry.date]
                /\ db' = db
           ELSE /\ db' = [db EXCEPT ![q.filter].date = Refreshed(@, now)]
                /\ query' = [query EXCEPT ![c] =
                                IF entry.list = None
                                THEN [q EXCEPT !.pc = "scan", !.entry_timestamp = entry.date, !.updating = FALSE]
                                ELSE Returned(q, "hit", entry.list)]
        /\ UNCHANGED <<config, codec, adapter, request, scheduling, threads, files_and_clock, edits, length, scans, LATEST_MTIME, tree>>

\* __call__, line 157: sorted_scan starts, outside the lock
ScanStart(c) ==
    /\ query[c].pc = "scan"
    /\ scans' = scans + 1
    /\ query' = [query EXCEPT ![c].pc = "scanning", ![c].content = tree, ![c].started = now]
    /\ UNCHANGED <<config, codec, adapter, request, scheduling, threads, files_and_clock, edits, db, length, LATEST_MTIME, tree>>

\* __call__, lines 157-158: the scan ends, having listed a file either as it
\* was when the scan started or as it is now; then
\* new_entry_timestamp = self.utcnow()
ScanEnd(c) ==
    /\ query[c].pc = "scanning"
    /\ \E listed \in {query[c].content, tree} :
        query' = [query EXCEPT ![c].pc = "store", ![c].content = listed, ![c].new_entry_timestamp = now]
    /\ UNCHANGED <<config, codec, adapter, request, scheduling, threads, files_and_clock, edits, db, length, scans, LATEST_MTIME, tree>>

\* __call__, lines 159-173, under the lock again
QueryStore(c) ==
    LET q == query[c]
        entry == db[q.filter]
    IN  /\ q.pc = "store"
        /\ IF entry.date # None /\ q.entry_timestamp = Unbound
           THEN \* line 163 reads entry_timestamp, which was never assigned
                /\ query' = [query EXCEPT ![c] = Returned(q, "UnboundLocalError", None)]
                /\ UNCHANGED <<db, length>>
           ELSE LET other_updated == entry.date # None /\ entry.date > q.entry_timestamp
                IN  /\ db' = IF other_updated THEN db
                             ELSE [db EXCEPT ![q.filter] =
                                      [date |-> q.new_entry_timestamp, list |-> q.content, scanned |-> q.started]]
                    /\ length' = IF ~other_updated /\ ~q.updating THEN length + 1 ELSE length
                    /\ query' = [query EXCEPT ![c] = Returned(q, "miss", q.content)]
        /\ UNCHANGED <<config, codec, adapter, request, scheduling, threads, files_and_clock, edits, scans, LATEST_MTIME, tree>>

\* scrub(), lines 190-193: mtime = latest_mtime_callback(True) and the
\* cutoff are taken before the lock
SearchScrubCall(c) ==
    /\ query[c].pc = "idle"
    /\ ops[c] < SearchOps
    /\ ops' = [ops EXCEPT ![c] = @ + 1]
    /\ query' = [query EXCEPT ![c] = [NoQuery EXCEPT !.pc = "scrub", !.op = "scrub", !.mtime = LATEST_MTIME,
                                                     !.started = now]]
    /\ UNCHANGED <<config, codec, adapter, request, scheduling, locks, files_and_clock, edits, db, length, scans, LATEST_MTIME, tree>>

\* scrub(), lines 196-217, under the lock
SearchScrub(c) ==
    /\ query[c].pc = "scrub"
    /\ \E r \in SearchScrubbed(db, query[c].mtime, options, query[c].started) :
        /\ db' = r.db
        /\ length' = r.length
    /\ query' = [query EXCEPT ![c] = Returned(query[c], "true", None)]
    /\ UNCHANGED <<config, codec, adapter, request, scheduling, threads, files_and_clock, edits, scans, LATEST_MTIME, tree>>

\* A file of the source tree is written: the tree changes and the latest
\* mtime is now.
TreeWrite ==
    /\ edits < MaxEdits
    /\ edits' = edits + 1
    /\ tree' = tree + 1
    /\ LATEST_MTIME' = now
    /\ UNCHANGED <<config, codec, adapter, request, scheduling, threads, files_and_clock, db, length, scans, query>>

NextSearch ==
    \/ \E c \in Callers : \E f \in SearchFilters : QueryCall(c, f)
    \/ \E c \in Callers : QueryCheck(c)
    \/ \E c \in Callers : ScanStart(c)
    \/ \E c \in Callers : ScanEnd(c)
    \/ \E c \in Callers : QueryStore(c)
    \/ \E c \in Callers : SearchScrubCall(c)
    \/ \E c \in Callers : SearchScrub(c)
    \/ TreeWrite
    \/ Tick

SpecSearch == InitSearch /\ [][NextSearch]_vars

\* Several threads use one SearchCache over a tree that has files; the
\* first makes MaxOps calls, the others one.  The lock of lines 141, 159 and 196 excludes them
\* from one another: each of QueryCheck, QueryStore and SearchScrub is one
\* step.
InitSearchConc ==
    /\ options \in {NoLimits, Options(None, MinMaxEntries, TRUE)}
    /\ filter_function = "process"
    /\ subdir = {}
    /\ now = 0
    /\ source = [p \in Paths |-> SourceFile(1, 0)]
    /\ cache = [p \in Paths |-> NoFile]
    /\ dir = FALSE
    /\ known_entry_count = 0
    /\ ret = NoRet
    /\ seen = [p \in Paths |-> NotSeen]
    /\ edits = 0
    /\ process_of = [c \in Callers |-> 1]
    /\ pc = [c \in Callers |-> "idle"]
    /\ frame = [c \in Callers |-> NoFrame]
    /\ pool_lock = [P \in Procs |-> "none"]
    /\ entry_lock = [p \in Paths |-> 0]
    /\ invocations = [p \in Paths |-> 0]
    /\ known_of = [P \in Procs |-> 0]
    /\ ops = [c \in Callers |-> IF c = 1 THEN SearchOps - MaxOps ELSE SearchOps - 1]
    /\ NoAdapter
    /\ NoCodec
    /\ NoRequest
    /\ NoJobs
    /\ db = [f \in SearchFilters |-> NoEntry]
    /\ length = 0
    /\ scans = 0
    /\ LATEST_MTIME = 0
    /\ tree = 0
    /\ query = [c \in Callers |-> NoQuery]

SpecSearchConc == InitSearchConc /\ [][NextSearch]_vars

\* ------------------------------------------------------- DispatcherCache
\* A DispatcherCache with auto_scrub and max_entries and its Worker; the
\* last path may lie in a subdirectory of the cache.
InitDispatch ==
    /\ options \in {o \in OptionSets : o.auto_scrub /\ o.max_entries # None}
    /\ filter_function \in {"process", "nocache"}
    /\ subdir \in {{}, {NPaths}}
    /\ now = 0
    /\ source = [p \in Paths |-> SourceFile(1, 0)]
    /\ cache = [p \in Paths |-> NoFile]
    /\ dir = FALSE
    /\ known_entry_count = 0
    /\ ret = NoRet
    /\ seen = [p \in Paths |-> NotSeen]
    /\ edits = 0
    /\ process_of = [c \in Callers |-> 1]
    /\ NoThreads
    /\ NoAdapter
    /\ NoCodec
    /\ NoSearch
    /\ NoRequest
    /\ jobs = <<>>
    /\ queue = <<>>
    /\ worker = [w \in Workers |-> IF w = 1 THEN Started ELSE Unstarted]
    /\ count = 0

\* __get_entry on a DispatcherCache: schedule_scrub(True) puts self.scrub
\* on the Worker's queue (tentative is not passed on) and returns the Job;
\* the lookup goes on without it.
DispatchLookup(p) ==
    /\ ret.kind # "entry"
    /\ Len(jobs) < MaxJobs
    /\ jobs' = Append(jobs, Job("scrub", 0))
    /\ queue' = Append(queue, Len(jobs) + 1)
    /\ LookupWith(p, [files |-> cache, known |-> known_entry_count, raised |-> FALSE, ran |-> FALSE])
    /\ UNCHANGED <<config, codec, adapter, search, request, threads, now, source, edits, worker, count>>

\* EntryWrapper.__exit__; the file may have been unlinked by the Worker
\* while the caller held the Entry.
Release ==
    /\ ret.kind = "entry"
    /\ cache' = [cache EXCEPT ![ret.path] = IF @.exists THEN EntryClose(@, now) ELSE @]
    /\ ret' = [NoRet EXCEPT !.op = "close", !.path = ret.path]
    /\ UNCHANGED <<config, codec, adapter, search, request, scheduling, threads, now, source, dir, known_entry_count, seen, edits>>

\* Worker.run, line 137, job() of a "scrub" Job: Cache.scrub() with
\* tentative = False.  Its return value (True, written 1) or its exception
\* is recorded on the Job.
RunScrub(w) ==
    /\ worker[w].pc = "call"
    /\ jobs[worker[w].job].func = "scrub"
    /\ \E q \in WalkOrders :
        LET scrubbed == ScrubCall(FALSE, cache, source, options, now, dir, known_entry_count, q)
        IN  /\ cache' = scrubbed.files
            /\ known_entry_count' = scrubbed.known
            /\ seen' = Forget(seen, Removed(cache, scrubbed.files))
            /\ jobs' = [jobs EXCEPT ![worker[w].job] =
                           IF scrubbed.raised THEN complete_exception(@, "NameError", w)
                           ELSE complete(@, 1, w)]
    /\ worker' = [worker EXCEPT ![w].pc = "get"]
    /\ UNCHANGED <<config, codec, adapter, search, request, threads, now, source, dir, ret, edits, queue, count>>

NextDispatch ==
    \/ \E p \in Paths : DispatchLookup(p)
    \/ Release
    \/ \E w \in Workers : Get(w)
    \/ \E w \in Workers : RunScrub(w)

SpecDispatch == InitDispatch /\ [][NextDispatch]_vars

\* ======================================================= claims
\* The source fields a header records
Changed(a, b) ==
    \/ a.modified # b.modified
    \/ SizeOf(a.data) # SizeOf(b.data)
    \/ Checksum(a.data) # Checksum(b.data)

\* The complete output of the test transformer on content d
FullOutput(d) == <<Touched, d>>

\* C1: two successive lookups of a path whose source exists and was not
\* modified in between (the entry file was not evicted in between) return
\* identical payload bytes, and the second runs no transformer: the one
\* run is that of the first lookup, which on a path without an entry file
\* runs the transformer exactly once.
C1_SuccessiveLookupsHit ==
    [][\A p \in Paths :
        /\ (Lookup(p) /\ seen[p].valid /\ seen[p].src = source[p] /\ p \notin ret'.removed)
              => (ret'.kind = "entry" /\ ret'.payload = seen[p].payload /\ ret'.calls = 0)
        /\ (Lookup(p) /\ filter_function = "process" /\ source[p].exists /\ ~cache[p].exists)
              => (ret'.kind = "entry" /\ ret'.payload = FullOutput(source[p].data) /\ ret'.calls = 1)
      ]_vars

\* C1 witness: a hit on an entry an earlier lookup built
C1_Witness ==
    /\ filter_function = "process"
    /\ ret.op = "lookup" /\ ret.kind = "entry" /\ ret.calls = 0
    /\ ret.payload = FullOutput(source[ret.path].data)

\* C2: when the source's mtime, size or checksum changed after its entry
\* was cached, the next lookup runs the transformer exactly once and
\* returns the payload of the new source; the lookup after that, with no
\* further change, is a hit.
C2_RebuildOnChange ==
    [][\A p \in Paths :
        /\ (Lookup(p) /\ seen[p].valid /\ source[p].exists /\ Changed(seen[p].src, source[p]))
              => /\ ret'.calls = 1
                 /\ filter_function = "process" =>
                        /\ ret'.kind = "entry"
                        /\ ret'.payload = FullOutput(source[p].data)
                        /\ seen'[p] = [valid |-> TRUE, payload |-> FullOutput(source[p].data), src |-> source[p]]
        /\ (Lookup(p) /\ seen[p].valid /\ seen[p].src = source[p] /\ ret.op = "close" /\ p \notin ret'.removed)
              => ret'.calls = 0
      ]_vars

\* C2 witness: an existing entry was rebuilt from a rewritten source
C2_Witness ==
    /\ filter_function = "process"
    /\ ret.op = "lookup" /\ ret.kind = "entry" /\ ret.calls = 1 /\ ret.update
    /\ ret.payload = FullOutput(2)

\* C3: parallel lookups of one key whose entry is missing or stale, by
\* threads of one process or by separate processes, while the source does
\* not change and no entry is evicted: the transformer runs exactly once
\* in total, and every caller reads the same payload.
C3_OneInvocation ==
    filter_function = "process" =>
        /\ \A p \in ConcPaths : invocations[p] <= 1
        /\ \A c1, c2 \in Callers :
              (frame[c1].kind = "read" /\ frame[c2].kind = "read" /\ frame[c1].path = frame[c2].path)
                  => frame[c1].payload = frame[c2].payload

\* C4: the payload readable from a returned Entry whose header has
\* cached = true is the complete output of one transformer run on some
\* content of the source.  (An entry cut to its header after the
\* transformer raised NotImplementedError is left aside.)
C4_PayloadIsOneRun ==
    (ret.op = "lookup" /\ ret.kind = "entry" /\ ret.header.cached /\ filter_function # "notimplemented")
        => \E d \in Data : ret.payload = FullOutput(d)

\* The positions inside 'with FileLock(lockfile, SHARED)' of __get_entry
LookupCritical == {"open", "create", "entry", "build"}

\* The positions inside 'with FileLock(lockfile, EXCLUSIVE)' of scrub
ScrubCritical == {"walk"}

\* C5: while a scrub is inside its EXCLUSIVE critical section, no lookup
\* of another caller, in the same process or in another, is inside its
\* SHARED critical section.
C5_ScrubExcludesLookups ==
    \A c1, c2 \in Callers : ~(pc[c1] \in ScrubCritical /\ pc[c2] \in LookupCritical)

\* C6: with a transformer that raises NoCache when cached = true, every
\* lookup of a path whose source exists returns an AutoProcess and leaves
\* the path's entry file with a header of cached = false, and running the
\* AutoProcess runs the transformer once on the source, cached = false.
C6_NoCachePassthrough ==
    [][filter_function = "nocache" =>
        /\ \A p \in Paths : (Lookup(p) /\ source[p].exists /\ ret'.kind # "raise") =>
              /\ ret'.kind = "auto"
              /\ ~ret'.header.cached
              /\ cache'[p].exists
              /\ EntryInit(cache'[p]).valid /\ ~EntryInit(cache'[p]).cached
              /\ ret'.calls = IF cache[p].exists /\ p \notin ret'.removed THEN 0 ELSE 1
              /\ find_files(cache') = (find_files(cache) \ ret'.removed) \cup {p}
        /\ (Invoke /\ source[ret.path].exists) =>
              /\ ret'.kind = "streamed"
              /\ ret'.calls = 1
              /\ ret'.payload = FullOutput(source[ret.path].data)
              /\ cache' = cache
      ]_vars

\* C6 witness: the AutoProcess of a second lookup of a tombstone has run
C6_Witness ==
    /\ filter_function = "nocache"
    /\ ret.op = "invoke" /\ ret.kind = "streamed" /\ ret.update
    /\ find_files(cache) = {ret.path}
    /\ ~EntryInit(cache[ret.path]).cached

\* The entry files before a scrub whose mtime no other entry's is below
\* (above)
StrictlyOldest(p, files) ==
    \A r \in find_files(files) \ {p} : files[p].modified < files[r].modified

StrictlyNewest(p, files) ==
    \A r \in find_files(files) \ {p} : files[r].modified < files[p].modified

SourcesExist(files) == \A p \in find_files(files) : source[p].exists

Expired(p, files) == options.max_age # None /\ files[p].modified < now - options.max_age

\* C7: with max_entries set, a non-tentative scrub leaves at most
\* max_entries entry files; after lookups of more than max_entries paths
\* whose sources exist, every entry it removed has an mtime no newer than
\* that of every entry it left.
C7_LruBound ==
    [][(Scrub /\ options.max_entries # None) =>
        /\ Cardinality(find_files(cache')) <= options.max_entries
        /\ (SourcesExist(cache) /\ Cardinality(find_files(cache)) > options.max_entries) =>
              \A e \in find_files(cache) \ find_files(cache'), k \in find_files(cache') :
                  cache[e].modified <= cache[k].modified
      ]_vars

\* C7 witness: a scrub of more than max_entries entries, all with a
\* source, removed some and left some
C7_Witness ==
    /\ options.max_entries # None
    /\ ret.op = "scrub"
    /\ ret.removed # {} /\ find_files(cache) # {}
    /\ Cardinality(ret.removed \cup find_files(cache)) > options.max_entries
    /\ \A p \in Paths : source[p].exists

\* C8 as stated: with max_entries = M and M + 1 entries, none expired and
\* each with a source, a non-tentative scrub leaves exactly M entry files,
\* without the oldest and with the newest.
C8_Original ==
    [][(/\ Scrub
        /\ options.max_entries # None
        /\ Cardinality(find_files(cache)) = options.max_entries + 1
        /\ SourcesExist(cache)
        /\ \A p \in find_files(cache) : ~Expired(p, cache)) =>
        /\ Cardinality(find_files(cache')) = options.max_entries
        /\ \A p \in find_files(cache) : StrictlyOldest(p, cache) => ~cache'[p].exists
        /\ \A p \in find_files(cache) : StrictlyNewest(p, cache) => cache'[p].exists
      ]_vars

\* C8 as amended: the scrub leaves exactly M - 1 entry files: the drain
\* goes on while the count is >= M.  The oldest entry is removed, the
\* newest is left, and the files left are unchanged.
C8_LruLeavesOneBelow ==
    [][(/\ Scrub
        /\ options.max_entries # None
        /\ Cardinality(find_files(cache)) = options.max_entries + 1
        /\ SourcesExist(cache)
        /\ \A p \in find_files(cache) : ~Expired(p, cache)) =>
        /\ Cardinality(find_files(cache')) = options.max_entries - 1
        /\ \A p \in find_files(cache) : StrictlyOldest(p, cache) => ~cache'[p].exists
        /\ \A p \in find_files(cache) : StrictlyNewest(p, cache) => cache'[p] = cache[p]
        /\ known_entry_count' = options.max_entries - 1
      ]_vars

\* C8 witness: a scrub of M + 1 entries of distinct age left M - 1, the
\* newest among them
C8_Witness ==
    /\ options.max_entries # None /\ options.max_age = None
    /\ ret.op = "scrub"
    /\ Cardinality(ret.removed) = 2
    /\ Cardinality(find_files(cache)) = options.max_entries - 1
    /\ \A p \in Paths : source[p].exists
    /\ \A p \in find_files(cache) : cache[p].modified = MaxTime

\* C9: with max_age set and max_entries unset, a scrub removes every entry
\* whose mtime is before now - max_age and keeps, unchanged, every entry
\* whose mtime is after it and whose source exists; the next lookup of a
\* path whose entry was removed runs the transformer exactly once.
C9_TtlEviction ==
    [][(options.max_age # None /\ options.max_entries = None) =>
        /\ Scrub => \A p \in find_files(cache) :
              /\ cache[p].modified < now - options.max_age => ~cache'[p].exists
              /\ (cache[p].modified > now - options.max_age /\ source[p].exists) => cache'[p] = cache[p]
        /\ \A p \in Paths : (Lookup(p) /\ ret.op = "scrub" /\ p \in ret.removed /\ source[p].exists) =>
              ret'.calls = 1
      ]_vars

\* C9 witness: the lookup after a scrub that removed the path's expired
\* entry, and kept a younger one, has run the transformer
C9_Witness ==
    /\ options.max_age # None /\ options.max_entries = None
    /\ ret.op = "lookup" /\ ret.calls = 1 /\ ret.refill
    /\ known_entry_count = 2
    /\ edits = 0

\* C10: a scrub removes every entry whose source file is gone, whatever
\* the options, and keeps, unchanged, every entry whose source exists when
\* neither the age limit (the entry is not expired) nor the entry limit
\* (max_entries is unset) applies.
C10_SourceRemoval ==
    [][Scrub => \A p \in find_files(cache) :
          /\ ~source[p].exists => ~cache'[p].exists
          /\ (source[p].exists /\ ~Expired(p, cache) /\ options.max_entries = None) => cache'[p] = cache[p]
      ]_vars

\* C10 witness: a scrub removed the entry of a removed source and kept
\* another entry
C10_Witness ==
    /\ ret.op = "scrub"
    /\ \E p \in ret.removed : ~source[p].exists
    /\ find_files(cache) # {}

\* The positions of __get_entry after the source was opened
PastSource == {"create", "entry", "build", "held", "auto"}

C12_KeyErrorOnlyForMissingSource ==
    [][\A p \in Paths : (Lookup(p) /\ ret'.kind = "KeyError") => ~source[p].exists]_vars

\* The transformer fails with an error other than NoCache and
\* NotImplementedError
FilterFails == FilterRaises(filter_function, TRUE) \in {"IOError", "Exception"}

\* C13: when the transformer fails with an error other than NoCache and
\* NotImplementedError, I/O errors included, the lookup re-raises the
\* error and leaves no entry file for the path, and the next lookup of the
\* path runs the transformer again.
C13_FailedRunLeavesNoFile ==
    [][\A p \in Paths :
        /\ (Lookup(p) /\ FilterFails /\ ret'.calls = 1)
              => (ret'.kind = "raise" /\ ~cache'[p].exists)
        /\ (Lookup(p) /\ FilterFails /\ source[p].exists
               /\ ret.op = "lookup" /\ ret.path = p /\ ret.calls = 1)
              => ret'.calls = 1
      ]_vars

\* The components that start with a dot
Dotted == {".", "..", ".h"}

C15_AutoScrubBound ==
    (options.auto_scrub /\ options.max_entries # None /\ ret.op = "lookup" /\ ret.kind \in {"entry", "auto"})
        => /\ known_entry_count <= options.max_entries
           /\ Cardinality(find_files(cache)) <= options.max_entries

\* C16: on a DispatcherCache with auto_scrub and max_entries, once the caller
\* has stopped and the Worker has run every scrub that was scheduled, the
\* known entry count is at most max_entries.
Quiescent == queue = <<>> /\ \A w \in Workers : worker[w].pc # "call"

C16_BoundAtQuiescence == (Quiescent /\ jobs # <<>>) => known_entry_count <= options.max_entries

\* test_many: total = sum(toadd), over the first k Jobs
RECURSIVE SumArgs(_, _)
SumArgs(js, k) ==
    IF k = 0 THEN 0
    ELSE SumArgs(js, k - 1) + (IF js[k].func = "process" THEN js[k].arg ELSE 0)

\* The Workers that are inside a Job
Running == {w \in Workers : worker[w].pc \in {"call", "store", "return"}}

\* C17: a single Worker runs the Jobs of its queue one at a time, in the
\* order they were scheduled, each once: a Job is taken only when every Job
\* scheduled before it is complete, and a complete "process" Job returned
\* the sum of the increments of all Jobs up to itself.
C17_OneAtATimeInOrder ==
    /\ Cardinality(Running) <= 1
    /\ \A k \in DOMAIN jobs :
        /\ jobs[k].runs = (IF jobs[k].completed THEN 1 ELSE 0)
        /\ jobs[k].completed => \A i \in 1 .. k - 1 : jobs[i].completed
        /\ (jobs[k].completed /\ jobs[k].func = "process") =>
              (wait(jobs[k]).raises = "none" /\ wait(jobs[k]).returns = SumArgs(jobs, k))
    /\ \A w \in Running :
        /\ ~jobs[worker[w].job].completed
        /\ \A i \in 1 .. worker[w].job - 1 : jobs[i].completed
        /\ \A i \in DOMAIN queue : queue[i] > worker[w].job

C17_Witness ==
    /\ Len(jobs) = MaxJobs
    /\ \A k \in DOMAIN jobs : jobs[k].func = "process" /\ jobs[k].completed
    /\ jobs[1].arg # jobs[MaxJobs].arg
    /\ jobs[MaxJobs].result = SumArgs(jobs, MaxJobs)
    /\ count = SumArgs(jobs, MaxJobs)

\* C18: on a WorkerPool, with only "process" Jobs scheduled, once the Job
\* scheduled last is complete every Job scheduled before it is complete, the
\* counter holds every increment, and the last Job returned the sum of all
\* increments.
C18_LastJobSeesAll ==
    LET n == Len(jobs)
    IN  (n > 0 /\ (\A k \in 1 .. n : jobs[k].func = "process") /\ jobs[n].completed) =>
           /\ \A k \in 1 .. n : jobs[k].completed
           /\ count = SumArgs(jobs, n)
           /\ wait(jobs[n]).returns = SumArgs(jobs, n)

\* The Jobs scheduled ahead of every sentinel
BeforeFinish == {k \in DOMAIN jobs : \A i \in 1 .. k : jobs[i].func # "finish"}

JobIds == 1 .. (MaxJobs + NWorkers)

\* C19: a Job whose callable raises something other than Finished is
\* completed with that exception, wait() on it raises the same exception,
\* and the Worker stays in its loop (only a sentinel ends it): every Job
\* scheduled after the failing one, ahead of a sentinel, is run too.
C19_ErrorIsCapturedWorkerGoesOn ==
    /\ [][\A w \in Workers :
            (Except(w) /\ Raises(jobs[worker[w].job].func) = "ValueError") =>
               /\ jobs'[worker[w].job].completed
               /\ jobs'[worker[w].job].exception = "ValueError"
               /\ wait(jobs'[worker[w].job]).raises = "ValueError"
               /\ worker'[w].pc = "get"
               /\ queue' = queue /\ count' = count]_vars
    /\ [](\A w \in Workers : worker[w].pc = "exited" => jobs[worker[w].job].func = "finish")
    /\ \A k \in JobIds : \A i \in 1 .. (k - 1) :
          (k \in BeforeFinish /\ jobs[i].func = "rexc")
             ~> (k \in DOMAIN jobs /\ jobs[k].completed /\ wait(jobs[i]).raises = "ValueError")

C19_Witness ==
    /\ Len(jobs) = MaxJobs
    /\ jobs[1].func = "rexc" /\ jobs[1].completed /\ wait(jobs[1]).raises = "ValueError"
    /\ \A k \in 2 .. MaxJobs : jobs[k].func = "process" /\ jobs[k].completed
    /\ wait(jobs[MaxJobs]).returns = SumArgs(jobs, MaxJobs)
    /\ worker[1].pc = "get"

\* The sentinels a Worker has consumed
Consumed(w) == {k \in DOMAIN jobs : jobs[k].func = "finish" /\ jobs[k].completed /\ jobs[k].by = w}

\* C20: WorkerPool.finish() puts one sentinel per Worker on the queue; a
\* Worker leaves its loop on the one sentinel it consumes; once finish() was
\* called every Worker exits, so join() returns; and by then every Job
\* scheduled before finish() is complete, with a result or an exception.
C20_PoolShutsDown ==
    /\ [][finish =>
            /\ Len(jobs') = Len(jobs) + Cardinality(StartedWorkers)
            /\ Len(queue') = Len(queue) + Cardinality(StartedWorkers)
            /\ \A k \in (Len(jobs) + 1) .. Len(jobs') : jobs'[k].func = "finish"]_vars
    /\ [](\A w \in Workers :
            /\ Cardinality(Consumed(w)) = (IF worker[w].pc = "exited" THEN 1 ELSE 0)
            /\ worker[w].pc = "exited" => worker[w].job \in Consumed(w))
    /\ [](Joined => \A k \in BeforeFinish :
                       /\ jobs[k].completed /\ jobs[k].runs = 1
                       /\ (jobs[k].exception # "none" \/ jobs[k].result # None))
    /\ (\E k \in DOMAIN jobs : jobs[k].func = "finish") ~> Joined

C20_Witness ==
    /\ Joined
    /\ Len(jobs) = MaxJobs + NWorkers
    /\ \E k \in BeforeFinish : jobs[k].exception = "ValueError"
    /\ \E k \in BeforeFinish : jobs[k].result # None
    /\ \A w \in Workers : Cardinality(Consumed(w)) = 1

\* C21: when the submitter leaves the RWAdapter's scope, the release
\* returns normally and the readable end is closed.
C21_ReleaseReturnsClosed == released # "no" => (released = "returned" /\ read_end = "closed")

\* C22: when the latest mtime a query got is strictly later than the date
\* stored for its filter, or a scrub has removed the entry, the query does
\* not return the stored list: it goes to the scan with the store untouched,
\* the scan is one more call of sorted_scan, and the query returns what that
\* scan listed.
C22_StaleEntryIsRescanned ==
    [][\A c \in Callers :
          /\ (QueryCheck(c) /\ db[query[c].filter].date # None /\ query[c].mtime # None
                /\ db[query[c].filter].date < query[c].mtime)
                => (query'[c].pc = "scan" /\ db' = db /\ scans' = scans)
          /\ (QueryCheck(c) /\ db[query[c].filter].date = None)
                => (query'[c].pc = "scan" /\ db' = db)
          /\ ScanStart(c) => scans' = scans + 1
          /\ QueryStore(c)
                => (query'[c].kind = "miss" /\ query'[c].result = query[c].content
                    /\ db'[query[c].filter].list = query[c].content)]_vars

C22_Witness ==
    \E c \in Callers :
        /\ query[c].pc = "idle" /\ query[c].kind = "miss" /\ query[c].updating
        /\ scans = 2 /\ tree > 0 /\ query[c].result = tree /\ db[query[c].filter].list = tree

\* The query of caller c is at the locked check and its filter has a stored
\* date and list
ChecksStored(c) ==
    QueryCheck(c) /\ db[query[c].filter].date # None /\ db[query[c].filter].list # None

\* The query of caller c returns the stored list without a scan, the stored
\* date set to the current time and len() unchanged
HitStep(c) ==
    /\ query'[c].pc = "idle" /\ query'[c].kind = "hit"
    /\ query'[c].result = db[query[c].filter].list
    /\ scans' = scans
    /\ length' = length
    /\ db' = [db EXCEPT ![query[c].filter].date = now]

\* C23 as stated: a stored entry is returned when the mtime is null or not
\* later than the stored date.
C23_Original ==
    [][\A c \in Callers :
          (ChecksStored(c) /\ (query[c].mtime = None \/ db[query[c].filter].date >= query[c].mtime))
             => HitStep(c)]_vars

\* C23: a stored entry is returned, refreshed, exactly when the mtime is not
\* null and not later than the stored date; a null mtime sends the query to
\* the scan with the store untouched.
C23_HitNeedsAnMtime ==
    [][\A c \in Callers :
          /\ (ChecksStored(c) /\ query[c].mtime # None /\ db[query[c].filter].date >= query[c].mtime)
                => HitStep(c)
          /\ (ChecksStored(c) /\ query[c].mtime = None)
                => (query'[c].pc = "scan" /\ db' = db /\ length' = length)
          /\ (ChecksStored(c) /\ query'[c].kind = "hit")
                => (query[c].mtime # None /\ db[query[c].filter].date >= query[c].mtime)]_vars

C23_Witness ==
    \E c \in Callers :
        /\ query[c].pc = "idle" /\ query[c].kind = "hit"
        /\ db[query[c].filter].date = now /\ db[query[c].filter].scanned < now
        /\ query[c].result = db[query[c].filter].list
        /\ scans = 1 /\ length = 1

\* C30: the timestamp a query stores with a freshly scanned list is not
\* later than the time at which that scan started.
C30_TimestampBeforeScan ==
    \A c \in Callers : query[c].pc = "store" => query[c].new_entry_timestamp <= query[c].started

\* C24: for every valid header, write() succeeds and read() of what it
\* wrote returns a header with the same size, cached flag, timestamp and
\* checksum.
C24_HeaderRoundTrip ==
    /\ wire.raises \in {"pending", "none"}
    /\ decoded.raises \in {"pending", "none"}
    /\ decoded.raises = "none" => decoded.header = given

\* The entry file is a tombstone: a header with cached = false
Tombstone(f) == f.exists /\ EntryInit(f).valid /\ ~EntryInit(f).cached

\* The header __get_entry computes from the source
SourceHeader(f) == EntryHeader(SizeOf(f.data), TRUE, f.modified, Checksum(f.data))

\* C25: a lookup of a path whose entry is a tombstone returns an AutoProcess
\* without a transformer run, leaves the file holding only the header of the
\* source as it is now with cached = false; and a tombstone stays one until
\* a scrub removes the file.
C25_TombstoneStaysUntilScrubbed ==
    [][\A p \in Paths :
          /\ (Lookup(p) /\ Tombstone(cache[p]) /\ source[p].exists) =>
                /\ ret'.kind = "auto" /\ ret'.calls = 0
                /\ ret'.header = Uncached(SourceHeader(source[p]))
                /\ cache'[p].exists /\ cache'[p].payload = <<>>
                /\ EntryInit(cache'[p]) = Uncached(SourceHeader(source[p]))
                /\ known_entry_count' = known_entry_count
          /\ (Tombstone(cache[p]) /\ ~Tombstone(cache'[p])) => (~cache'[p].exists /\ ret'.op = "scrub")]_vars

C25_Witness ==
    /\ filter_function = "nocache"
    /\ ret.op = "lookup" /\ ret.kind = "auto" /\ ret.update /\ ret.calls = 0
    /\ source[ret.path].modified > 0
    /\ EntryInit(cache[ret.path]) = Uncached(SourceHeader(source[ret.path]))

\* The caller is the only thread of its process
Alone(c) == \A d \in Callers \ {c} : process_of[d] # process_of[c]

\* C26: a caller that got an AutoProcess holds neither the pool lock nor
\* the entry lock, and while it runs the AutoProcess it holds the pool lock
\* SHARED (with the shared lock on the source).
C26_AutoProcessLocks ==
    \A c \in Callers :
        Alone(c) =>
           /\ pc[c] = "auto" =>
                 (pool_lock[process_of[c]] = "none" /\ entry_lock[frame[c].path] # process_of[c])
           /\ pc[c] = "transform" => pool_lock[process_of[c]] = "SH"

\* The first half alone
C26_NothingHeldAfterLookup ==
    \A c \in Callers :
        (Alone(c) /\ pc[c] = "auto") =>
           (pool_lock[process_of[c]] = "none" /\ entry_lock[frame[c].path] # process_of[c])

\* C27: one caller: after every completed lookup (hit, miss or update,
\* NotImplemented result, NoCache result) and after every scrub the known
\* count is the number of entry files under the cache root; a tombstone
\* counts as one.
C27_CountIsFileCount ==
    (ret.op = "scrub" \/ (ret.op = "lookup" /\ ret.kind \in {"entry", "auto"}))
        => known_entry_count = Cardinality(find_files(cache))

\* The same for the transformers that cache or return NotImplemented
C27_CountWhenCached ==
    (filter_function \in {"process", "notimplemented"}) => C27_CountIsFileCount

\* C28: a tentative scrub that finds the known count below max_entries
\* does no work, on a DispatcherCache as on a Cache: the scrub that a
\* lookup scheduled removes no file, leaves the known count alone and
\* returns False without the EXCLUSIVE section of a full scrub (which ends
\* in True or in an exception).
C28_TentativeScrubSkips ==
    [][\A w \in Workers :
        (RunScrub(w) /\ known_entry_count < options.max_entries)
            => /\ cache' = cache
               /\ known_entry_count' = known_entry_count
               /\ jobs'[worker[w].job].exception = "none"
               /\ jobs'[worker[w].job].result = 0
      ]_vars

\* C29: with a subdirectory under the cache root a scrub completes
\* normally: it returns True, sets the known count to the number of
\* entries it kept, and leaves no empty subdirectory behind (one that still
\* holds an entry file is kept).
C29_ScrubRemovesEmptyDirectories ==
    [][\A w \in Workers :
        (RunScrub(w) /\ dir)
            => /\ jobs'[worker[w].job].exception = "none"
               /\ jobs'[worker[w].job].result = 1
               /\ known_entry_count' = Cardinality(find_files(cache'))
               /\ dir' => \E p \in subdir : cache'[p].exists
      ]_vars

\* C31: a query that begins after a write in the source tree (its mtime is
\* the time of that write) never returns as a hit a list produced by a scan
\* that started before the write, also when the write fell into that scan.
C31_NoHitOnOlderScan ==
    [][\A c \in Callers :
        (QueryCheck(c) /\ query'[c].kind = "hit" /\ query[c].mtime # None)
            => db[query[c].filter].scanned >= query[c].mtime
      ]_vars

\* The filters with a stored list, and those with a stored '=date:' key
StoredLists(d) == {f \in SearchFilters : d[f].list # None}
StoredDates(d) == {f \in SearchFilters : d[f].date # None}

\* What a scrub that read mtime and computed its cutoff at time t must
\* leave of the store d
ScrubbedTo(d, after, mtime, t) ==
    LET fresh == {f \in StoredLists(d) :
                    /\ mtime # None /\ d[f].date >= mtime
                    /\ options.max_age # None => d[f].date >= t - options.max_age}
    IN  /\ options.max_entries # None => Cardinality(StoredLists(after)) <= options.max_entries
        /\ StoredDates(after) = StoredLists(after)
        /\ \A f \in StoredLists(after) : after[f] = d[f]
        /\ \A f \in fresh \ StoredLists(after) : \A g \in StoredLists(after) : d[f].date <= d[g].date

\* C33: after a scrub with max_entries = M at most M filter entries remain,
\* an entry goes together with its '=date:' partner, and an entry evicted
\* for the size limit alone has a stored timestamp no newer than that of
\* any survivor.  The scrub is the explicit one or the one a query runs
\* first under auto_scrub.
C33_SearchScrubEvictsOldest ==
    [][\A c \in Callers :
        /\ SearchScrub(c) => ScrubbedTo(db, db', query[c].mtime, query[c].started)
        /\ (\E f \in SearchFilters : QueryCall(c, f) /\ db' # db) => ScrubbedTo(db, db', LATEST_MTIME, now)
      ]_vars

\* C33 witness: three filters were scanned once each over an unchanged
\* tree, one of them was then consumed again, and a scrub for the size
\* limit has left max_entries of them.
C33_Witness ==
    \E c \in Callers :
        /\ query[c].pc = "idle" /\ query[c].op = "scrub" /\ query[c].kind = "true"
        /\ options.max_entries # None /\ options.max_age = None
        /\ edits = 0 /\ LATEST_MTIME = 0
        /\ scans = NFilters
        /\ Cardinality(StoredLists(db)) = options.max_entries
        /\ length = options.max_entries
        /\ \E f \in StoredLists(db) : db[f].scanned < db[f].date

\* C32: a query that scanned outside the lock returns its scan result
\* without raising; under the lock again its result is dropped only when
\* the stored date is newer than the query's new timestamp and is stored
\* otherwise; afterwards every stored list has its one date key and the
\* length counts each once.  Two threads that scan for the same filter are
\* the case in point.
C32_ScanResultIsReconciled ==
    [][\A c \in Callers :
        QueryStore(c) =>
            LET q == query[c]
                entry == db[q.filter]
                dropped == entry.date # None /\ entry.date > q.new_entry_timestamp
            IN  /\ query'[c].kind = "miss"
                /\ query'[c].result = q.content
                /\ dropped => db'[q.filter] = entry
                /\ ~dropped => (db'[q.filter].date = q.new_entry_timestamp /\ db'[q.filter].list = q.content)
                /\ StoredDates(db') = StoredLists(db')
                /\ length' = Cardinality(StoredLists(db'))
      ]_vars

\* C40: whenever the lock of a SearchCache is free (between the steps of
\* the model), its length is the number of stored keys that are not date
\* keys.
C40_LengthIsKeyCount == length = Cardinality(StoredLists(db))

\* The contents that are no readable header: an empty or short file, a
\* wrong magic, a checksum cut short, a checksum length of 0
BadBytes(b) ==
    \/ b.st_size # "full"
    \/ ~b.magic
    \/ Len(b.checksum) < b.cksum_len
    \/ b.cksum_len = 0

\* C34: whatever bytes an existing cache file holds that are no readable
\* header, a lookup of its path, whose source exists, raises no error: the
\* entry is rebuilt by one run of the transformer and returned.
C34_BadBytesAreRebuilt ==
    [][(LookupBytes(Planted) /\ wire # NoWire /\ BadBytes(wire) /\ source[Planted].exists)
          => /\ ret'.kind \in {"entry", "auto"}
             /\ ret'.calls = 1
             /\ filter_function = "process" =>
                   (ret'.kind = "entry" /\ ret'.payload = FullOutput(source[Planted].data))
      ]_vars

\* C35: when the transformer raises NotImplementedError during a miss or an
\* update, the lookup returns an Entry with an empty payload after that one
\* run; the entry file holds the header of the source, cached = true, and
\* no payload byte, and a file that did not exist before is counted.
C35_NotImplementedIsEmptyEntry ==
    [][filter_function = "notimplemented" =>
        \A p \in Paths :
            (Lookup(p) /\ source[p].exists /\ ~Tombstone(cache[p])
                       /\ EntryInit(cache[p]) # SourceHeader(source[p]))
                => /\ ret'.kind = "entry"
                   /\ ret'.calls = 1
                   /\ ret'.payload = <<>>
                   /\ ret'.header = SourceHeader(source[p])
                   /\ cache'[p].exists
                   /\ cache'[p].payload = <<>>
                   /\ EntryInit(cache'[p]) = SourceHeader(source[p])
                   /\ known_entry_count' = IF cache[p].exists THEN known_entry_count
                                           ELSE known_entry_count + 1
      ]_vars

\* C35 witness: an update that ended in NotImplementedError, after the miss
\* that created the file
C35_Witness ==
    /\ filter_function = "notimplemented"
    /\ ret.op = "lookup" /\ ret.kind = "entry" /\ ret.update /\ ret.calls = 1
    /\ ret.payload = <<>>
    /\ cache[ret.path].payload = <<>>
    /\ EntryInit(cache[ret.path]) = SourceHeader(source[ret.path])
    /\ source[ret.path].modified > 0
    /\ known_entry_count = 1

\* C36: every scrub call terminates: the drain loop, once entered, exits and
\* scrub returns, also when the time of the entries it kept advanced
\* between the walk and the drain
C36_DrainLoopExits == \A c \in Callers : (pc[c] = "drain") ~> (pc[c] \in {"idle", "held"})

\* Every caller is a process of its own
SeparateProcesses == \A c, d \in Callers : c # d => process_of[c] # process_of[d]

\* The caller is inside lookup or inside scrub
InCall(c) == pc[c] \in {"acquire_shared", "open", "create", "entry", "build", "acquire_exclusive", "walk", "drain"}

\* C37: callers of several processes, each holding at most one Entry that it
\* closes in the end, never deadlock: under fair scheduling every lookup and
\* every scrub that was called returns
C37_EveryCallReturns == \A c \in Callers : (SeparateProcesses /\ InCall(c)) ~> ~InCall(c)

\* C38: when callers of separate processes look up one path concurrently,
\* the open of the later caller leaves a cache file alone whose Entry lock
\* the earlier caller holds, the earlier caller reads the whole output it
\* built, and the transformer runs once for the path
C38_OpenLeavesHeldFile ==
    [][SeparateProcesses =>
         \A c \in Callers :
            LET p == frame[c].path
            IN  /\ (CreateEntry(c) /\ entry_lock[p] # 0) => cache'[p] = cache[p]
                /\ (ReadClose(c) /\ filter_function = "process")
                     => frame'[c].payload = FullOutput(source[p].data)
                /\ (Build(c) /\ filter_function = "process") => invocations'[p] <= 1]_vars

\* C39: the source a lookup opens lies under source_root, also when the
\* lookup then fails in mkdir_p, and the cache file an accepted path opens
\* lies under the cache root at the same relative path; no source is a
\* file of the cache root
C39_FilesStayUnderRoots ==
    /\ verdict \in {"opened", "not under root"}
         => /\ Under(original_path(normalized), SourceRoot)
            /\ ~Under(original_path(normalized), CacheRoot)
    /\ verdict = "opened"
         => /\ Under(cache_path(normalized), CacheRoot)
            /\ SubSeq(cache_path(normalized), Len(CacheRoot) + 1, Len(cache_path(normalized)))
                 = SubSeq(original_path(normalized), Len(SourceRoot) + 1, Len(original_path(normalized)))

====================================================================
